---- MODULE Spec2Model ----
(***************************************************************************)
(* A model of the crosstab reconciliation engine of                        *)
(* src/src/data_comparator.py (class DataComparator): value normalisation, *)
(* the header/year filters, header location, data point extraction and     *)
(* the coordinate-keyed comparison run by compare_files.                   *)
(*                                                                         *)
(* Conventions.                                                            *)
(*  - A Python str is a sequence of one-character strings; characters      *)
(*    outside ASCII are written as named tokens ("nbsp", "e_ac", ...).     *)
(*  - A Python float is a decimal number [m, e] standing for m / 10^e,     *)
(*    kept in lowest terms (DecNorm), so equal numbers are equal records.  *)
(*  - A Python value is a record [t, n, s]: t is "none", "num" or "str".   *)
(***************************************************************************)
EXTENDS Integers, Sequences, FiniteSets, TLC

VARIABLES
  \* --- classification of one raw cell (SpecValue)
  cell,               \* the raw cell under test: [value, number_format]
  val_pc,             \* position in the sequence of tests applied to the cell
  nv_result,          \* <<normalize_value(cell.value)>> once computed
  lh_result,          \* <<_is_likely_header(cell)>>
  det_result,         \* <<find_data_table's per-cell test>>
  yr_result,          \* <<is_year(cell.value)>>
  dc_result,          \* <<is_data_cell(cell)>>
  dv_result,          \* <<get_displayed_value(cell)>>
  \* --- compare_simple_data on two lists of data points (SpecCompare)
  numeric_tolerance,  \* self.numeric_tolerance
  published_points,   \* the data points of the published sheet
  recreated_points,   \* the data points of the recreated sheet
  results,            \* <<the dictionary compare_simple_data returns>>
  cmp_pc,             \* "ready" before the call, "done" after it
  \* --- one worksheet through detection and extraction (SpecExtract)
  sheet,              \* the worksheet (ws)
  table_bounds,       \* <<the bounds find_data_table returns>>
  data_points,        \* the list extract_simple_data_points returns
  ext_pc,             \* the call that comes next
  \* --- compare_files on two workbooks and a list of sheet names (SpecFiles)
  published_file,     \* the published workbook, as load_workbook finds it
  recreated_file,     \* the recreated workbook
  sheet_names,        \* the requested sheet names
  sheet_index,        \* the place in sheet_names of the sheet being processed
  sheet_results,      \* results['sheet_results']: sheet name -> result
  overall_stats,      \* results['overall_stats']
  cf_pc,              \* the statement of compare_files that comes next
  \* --- _values_semantically_equivalent on two labels (SpecLabel)
  value1,             \* the first label
  value2,             \* the second label
  norm_value1,        \* <<normalize_dimension_label(value1)>> once computed
  norm_value2,        \* <<normalize_dimension_label(value2)>>
  vse_result,         \* <<the value returned>>
  vse_pc,             \* the statement that comes next
  \* --- has_background_color on the fill of one cell (SpecFill)
  fill,               \* cell.fill: its pattern type and foreground colour
  unset_attribute,    \* what reading an attribute the Color never set gives
  hbc_result,         \* <<has_background_color(cell)>> once computed
  hbc_pc,             \* "ready" before the call, "done" after it
  \* --- generate_consolidated_name on a list of columns (SpecName)
  columns,            \* the dimension columns to consolidate
  consolidated_name,  \* <<generate_consolidated_name(columns)>> once computed
  name_valid,         \* <<validate_consolidated_name(name)[0]>>
  name_pc,            \* the call that comes next
  \* --- validate_dataframe_integrity on two frames (SpecIntegrity)
  original_df,        \* the frame before the conversion
  converted_df,       \* the frame after the conversion
  is_json,            \* the flag of the JSON checks
  integrity,          \* <<the outcome of validate_dataframe_integrity>>
  integ_pc,           \* the call that comes next
  \* --- DimensionConsolidator.consolidate (SpecConsolidate)
  loaded_df,          \* self.original_df: the frame _load_data read
  dry_run,            \* the flag of the simulation
  candidates,         \* the groups of columns approved for consolidation
  consolidated_df,    \* self.consolidated_df
  report,             \* the checks of the report
  cons_pc             \* the step of consolidate that comes next

valueVars == <<cell, val_pc, nv_result, lh_result, det_result, yr_result,
               dc_result, dv_result>>

compareVars == <<numeric_tolerance, published_points, recreated_points, results,
                 cmp_pc>>

extractVars == <<sheet, table_bounds, data_points, ext_pc>>

filesVars == <<published_file, recreated_file, sheet_names, sheet_index,
               sheet_results, overall_stats, cf_pc>>

labelVars == <<value1, value2, norm_value1, norm_value2, vse_result, vse_pc>>

fillVars == <<fill, unset_attribute, hbc_result, hbc_pc>>

nameVars == <<columns, consolidated_name, name_valid, name_pc>>

integrityVars == <<original_df, converted_df, is_json, integrity, integ_pc>>

consolidatorVars == <<loaded_df, dry_run, candidates, consolidated_df, report, cons_pc>>

vars == <<valueVars, compareVars, extractVars, filesVars, labelVars,
          fillVars,
          nameVars,
          integrityVars,
          consolidatorVars>>

-----------------------------------------------------------------------------
(* Bounds of the model *)

\* Longest generated raw string (beside the named example strings).
MaxStrLen == 3
\* Longest list of recreated / published data points handed to
\* compare_simple_data.
MaxRecreated == 2
MaxPublished == 1

-----------------------------------------------------------------------------
(* Text *)

Digits == {"0", "1", "2", "3", "4", "5", "6", "7", "8", "9"}

DigitVal(c) ==
  CASE c = "0" -> 0 [] c = "1" -> 1 [] c = "2" -> 2 [] c = "3" -> 3
    [] c = "4" -> 4 [] c = "5" -> 5 [] c = "6" -> 6 [] c = "7" -> 7
    [] c = "8" -> 8 [] c = "9" -> 9

DigitChar(d) ==
  CASE d = 0 -> "0" [] d = 1 -> "1" [] d = 2 -> "2" [] d = 3 -> "3"
    [] d = 4 -> "4" [] d = 5 -> "5" [] d = 6 -> "6" [] d = 7 -> "7"
    [] d = 8 -> "8" [] d = 9 -> "9"

\* Python's str.isspace characters that occur in the model (\s of re as well).
IsSpace(c) == c \in {" ", "nbsp", "tab"}

UpperChars == <<"A", "B", "C", "D", "E", "F", "G", "H", "I", "J", "K", "L", "M",
                "N", "O", "P", "Q", "R", "S", "T", "U", "V", "W", "X", "Y", "Z">>
LowerChars == <<"a", "b", "c", "d", "e", "f", "g", "h", "i", "j", "k", "l", "m",
                "n", "o", "p", "q", "r", "s", "t", "u", "v", "w", "x", "y", "z">>

LowerChar(c) ==
  IF \E i \in DOMAIN UpperChars : UpperChars[i] = c
  THEN LowerChars[CHOOSE i \in DOMAIN UpperChars : UpperChars[i] = c]
  ELSE c

\* str.lower()
Lower(s) == [i \in 1..Len(s) |-> LowerChar(s[i])]

\* str.strip()
RECURSIVE LStrip(_)
LStrip(s) == IF s # <<>> /\ IsSpace(Head(s)) THEN LStrip(Tail(s)) ELSE s

RECURSIVE RStrip(_)
RStrip(s) ==
  IF s # <<>> /\ IsSpace(s[Len(s)]) THEN RStrip(SubSeq(s, 1, Len(s) - 1)) ELSE s

Strip(s) == RStrip(LStrip(s))

\* `p in s` for strings
Contains(s, p) ==
  \E i \in 0..(Len(s) - Len(p)) : SubSeq(s, i + 1, i + Len(p)) = p

\* str.count(ch) for a one-character ch
Count(s, ch) == Len(SelectSeq(s, LAMBDA c : c = ch))

\* str.rfind(ch) + 1: the last (1-based) place of ch, 0 when absent
RFind(s, ch) ==
  IF \E i \in 1..Len(s) : s[i] = ch
  THEN CHOOSE i \in 1..Len(s) : s[i] = ch /\ \A j \in (i + 1)..Len(s) : s[j] # ch
  ELSE 0

\* str.replace(a, b) and str.replace(a, '') for one-character a, b
ReplaceChar(s, a, b) == [i \in 1..Len(s) |-> IF s[i] = a THEN b ELSE s[i]]
RemoveChar(s, a) == SelectSeq(s, LAMBDA c : c # a)

-----------------------------------------------------------------------------
(* Numbers *)

RECURSIVE Pow10(_)
Pow10(k) == IF k = 0 THEN 1 ELSE 10 * Pow10(k - 1)

RECURSIVE DecNorm(_)
DecNorm(d) ==
  IF d.e > 0 /\ d.m % 10 = 0 THEN DecNorm([m |-> d.m \div 10, e |-> d.e - 1]) ELSE d

Dec(m, e) == DecNorm([m |-> m, e |-> e])
DecInt(k) == [m |-> k, e |-> 0]

DecLE(a, b) == a.m * Pow10(b.e) <= b.m * Pow10(a.e)
DecLT(a, b) == a.m * Pow10(b.e) < b.m * Pow10(a.e)
DecSub(a, b) == Dec(a.m * Pow10(b.e) - b.m * Pow10(a.e), a.e + b.e)
DecAbs(a) == [m |-> IF a.m < 0 THEN -a.m ELSE a.m, e |-> a.e]
\* x == int(x)
IsIntValued(a) == DecNorm(a).e = 0
\* int(x): truncation toward zero
DecTrunc(a) ==
  IF a.m >= 0 THEN a.m \div Pow10(a.e) ELSE -((-a.m) \div Pow10(a.e))

RECURSIVE DigitsToInt(_)
DigitsToInt(ds) ==
  IF ds = <<>> THEN 0
  ELSE 10 * DigitsToInt(SubSeq(ds, 1, Len(ds) - 1)) + DigitVal(ds[Len(ds)])

\* str(k) for an integer k >= 0
RECURSIVE NatToStr(_)
NatToStr(k) ==
  IF k < 10 THEN <<DigitChar(k)>> ELSE NatToStr(k \div 10) \o <<DigitChar(k % 10)>>

-----------------------------------------------------------------------------
(* Python values *)

NoneVal == [t |-> "none", n |-> DecInt(0), s |-> <<>>]
Num(d) == [t |-> "num", n |-> DecNorm(d), s |-> <<>>]
Str(s) == [t |-> "str", n |-> DecInt(0), s |-> s]

\* bool(value): None, 0, 0.0 and '' are falsy
Truthy(v) ==
  CASE v.t = "none" -> FALSE
    [] v.t = "num" -> v.n.m # 0
    [] v.t = "str" -> v.s # <<>>

(* float(s) of a str: surrounding whitespace is ignored, then an optional sign  *)
(* and digits with at most one '.', at least one digit.  The exponent, inf/nan  *)
(* and digit-underscore forms float() also reads do not occur in the model's   *)
(* strings.  The result is [ok, n]; ok = FALSE stands for ValueError.          *)
ParseFloat(s) ==
  LET t == Strip(s)
      signed == t # <<>> /\ Head(t) \in {"+", "-"}
      body == IF signed THEN Tail(t) ELSE t
      wellFormed == /\ \A i \in 1..Len(body) : body[i] \in Digits \cup {"."}
                    /\ Count(body, ".") <= 1
                    /\ \E i \in 1..Len(body) : body[i] \in Digits
      dot == RFind(body, ".")
      frac == IF dot = 0 THEN 0 ELSE Len(body) - dot
      mag == DigitsToInt(RemoveChar(body, "."))
  IN IF wellFormed
     THEN [ok |-> TRUE,
           n |-> Dec(IF signed /\ Head(t) = "-" THEN -mag ELSE mag, frac)]
     ELSE [ok |-> FALSE, n |-> DecInt(0)]

\* re.sub(r'\s+', '', s)
RemoveWhitespace(s) == SelectSeq(s, LAMBDA c : ~IsSpace(c))

\* re.sub(r'[^\d.\-+]', '', s)
KeepNumericChars(s) == SelectSeq(s, LAMBDA c : c \in Digits \cup {".", "-", "+"})

\* A slip in the separator choice: the string is left as it is.
SeparatorsResolved_asis(s) == s

\* The thousands/decimal separator choice of normalize_value.
SeparatorsResolved(s) ==
  LET comma_count == Count(s, ",")
      dot_count == Count(s, ".")
      last_dot == RFind(s, ".")
  IN IF comma_count = 0 /\ dot_count <= 1 THEN s
     ELSE IF comma_count = 1 /\ dot_count = 0 THEN ReplaceChar(s, ",", ".")
     ELSE IF comma_count > 0 /\ dot_count > 0
          THEN IF RFind(s, ",") > last_dot
               THEN ReplaceChar(RemoveChar(s, "."), ",", ".")
               ELSE RemoveChar(s, ",")
     ELSE IF comma_count > 1 THEN RemoveChar(s, ",")
     ELSE IF dot_count > 1
          THEN \* parts = s.split('.'); parts[-1] is what follows the last dot
               IF Len(s) - last_dot <= 2
               THEN RemoveChar(SubSeq(s, 1, last_dot - 1), ".") \o <<".">>
                      \o SubSeq(s, last_dot + 1, Len(s))
               ELSE RemoveChar(s, ".")
     ELSE s

\* The outcome of a call that ends with an exception instead of a value.
Raised == [t |-> "raised", n |-> DecInt(0), s |-> <<>>]

\* A slip in the handler: the ValueError of float() leaves normalize_value.
OnValueError_uncaught == Raised

\* except (ValueError, TypeError): return None
OnValueError == NoneVal

normalize_value(value) ==
  IF value.t = "none" THEN NoneVal
  ELSE IF value.t = "num" THEN Num(value.n)
  ELSE LET str_value == Strip(value.s) IN
       IF str_value = <<>> \/ str_value = <<"-">> THEN NoneVal
       ELSE LET parsed == ParseFloat(KeepNumericChars(
                             SeparatorsResolved(RemoveWhitespace(str_value))))
            IN IF parsed.ok THEN Num(parsed.n) ELSE OnValueError

-----------------------------------------------------------------------------
(* Cells.  A raw cell carries its value and its number format. *)

General == <<"G", "e", "n", "e", "r", "a", "l">>

Cell(v, fmt) == [value |-> v, number_format |-> fmt]

\* str(value) of a number (the digits of the decimal it stands for)
NumToStr(d) ==
  LET a == IF d.m < 0 THEN -d.m ELSE d.m
      whole == NatToStr(a \div Pow10(d.e))
      fracv == a % Pow10(d.e)
      fracs == NatToStr(fracv)
      pad == [i \in 1..(d.e - Len(fracs)) |-> "0"]
  IN (IF d.m < 0 THEN <<"-">> ELSE <<>>) \o whole
       \o (IF d.e > 0 THEN <<".">> \o pad \o fracs ELSE <<>>)

PyStr(v) ==
  CASE v.t = "str" -> v.s
    [] v.t = "num" -> NumToStr(v.n)
    [] v.t = "none" -> <<"N", "o", "n", "e">>

\* A slip in the year test: no number is in the range.
InYearRange_never(d) == FALSE

\* 1900 <= x <= 2030
InYearRange(d) == DecLE(DecInt(1900), d) /\ DecLE(d, DecInt(2030))

obvious_headers ==
  { <<"a", "n", "o", "s">>,
    <<"u", "n", "i", "d", "a", "d", "e", ":">>,
    <<"f", "o", "n", "t", "e", ":">>,
    <<"n", "o", "t", "a", ":">>,
    <<"c", "o", "n", "t", "i", "n", "e", "n", "t", "e">>,
    <<"a", "c_ced", "o", "r", "e", "s">>,
    <<"m", "a", "d", "e", "i", "r", "a">>,
    <<"t", "o", "t", "a", "l", " ", "g", "e", "r", "a", "l">>,
    <<"r", "e", "g", "i", "a_til", "o", " ", "a", "u", "t", "o_ac", "n", "o", "m", "a">> }

_is_likely_header(c) ==
  IF ~Truthy(c.value) THEN TRUE
  ELSE LET cell_str == Strip(PyStr(c.value))
           numeric_value == normalize_value(c.value)
       IN IF \E h \in obvious_headers : Contains(Lower(cell_str), h) THEN TRUE
          ELSE IF /\ c.value.t = "str"
                  /\ \/ Contains(cell_str, <<":">>)
                     \/ /\ Len(cell_str) <= 4
                        /\ \E ch \in {".", "I", "X", "V"} : Contains(cell_str, <<ch>>)
               THEN TRUE
          ELSE IF numeric_value.t = "num" THEN InYearRange(numeric_value.n)
          ELSE FALSE

\* The test find_data_table applies to each cell to count it as a data cell.
DetectorAccepts(c) ==
  /\ c.value.t # "none"
  /\ normalize_value(c.value).t = "num"
  /\ ~_is_likely_header(c)

is_year(value) ==
  CASE value.t = "str" ->
         LET p == ParseFloat(value.s) IN p.ok /\ InYearRange(p.n)
    [] value.t = "num" -> InYearRange(value.n)
    [] value.t = "none" -> FALSE

is_data_cell(c) ==
  LET normalized_value == normalize_value(c.value) IN
  IF ~Truthy(c.value) THEN FALSE
  ELSE IF normalized_value.t = "none" THEN FALSE
  ELSE IF is_year(c.value) THEN FALSE
  ELSE IF _is_likely_header(c) THEN FALSE
  ELSE IF DecLE(normalized_value.n, DecInt(1)) THEN FALSE
  ELSE TRUE

\* round(x, k) of a decimal: to the nearest, ties to the even digit
RoundDec(d, k) ==
  IF d.e <= k THEN d
  ELSE LET scale == Pow10(d.e - k)
           a == IF d.m < 0 THEN -d.m ELSE d.m
           q == a \div scale
           r == a % scale
           up == r * 2 > scale \/ (r * 2 = scale /\ q % 2 = 1)
           rounded == IF up THEN q + 1 ELSE q
       IN Dec(IF d.m < 0 THEN -rounded ELSE rounded, k)

\* number_format.count('0') - len(number_format.split('.')[0] without '#' and '0')
FormatDecimalPlaces(fmt) ==
  LET first_dot == IF Count(fmt, ".") = 0 THEN Len(fmt) + 1
                   ELSE CHOOSE i \in 1..Len(fmt) :
                          fmt[i] = "." /\ \A j \in 1..(i - 1) : fmt[j] # "."
      before == SubSeq(fmt, 1, first_dot - 1)
  IN Count(fmt, "0") - Len(RemoveChar(RemoveChar(before, "#"), "0"))

get_displayed_value(c) ==
  IF c.value.t = "none" THEN NoneVal
  ELSE LET normalized_value ==
             IF c.value.t = "num" THEN Num(c.value.n) ELSE normalize_value(c.value)
           x == normalized_value.n
           fmt == c.number_format
       IN IF normalized_value.t = "none" THEN NoneVal
          ELSE IF InYearRange(x) /\ IsIntValued(x) THEN NoneVal
          ELSE IF /\ DecLE(DecInt(1800), x) /\ DecLE(x, DecInt(2100))
                  /\ IsIntValued(x) /\ DecLT(x, DecInt(10000))
               THEN NoneVal
          ELSE IF /\ fmt # <<>> /\ fmt # General
                  /\ Contains(fmt, <<"0", ".", "0">>)
                  /\ FormatDecimalPlaces(fmt) > 0
               THEN Num(RoundDec(x, FormatDecimalPlaces(fmt)))
          ELSE Num(x)

-----------------------------------------------------------------------------
(* The raw cells the value tests are applied to *)

\* Characters of the generated raw strings.
GenChars == {"1", "9", "0", ",", ".", " "}

RECURSIVE StringsUpTo(_)
StringsUpTo(k) ==
  IF k = 0 THEN {<<>>}
  ELSE LET shorter == StringsUpTo(k - 1)
       IN shorter \cup {Append(s, c) : s \in {x \in shorter : Len(x) = k - 1},
                                        c \in GenChars}

s_Total == <<"T", "o", "t", "a", "l">>

\* "1976", "2023", "1850", "30 602,0", "1 234,56", "1 976" (no-break space),
\* "12.5", "12,5", "-" and "Total"; "1.234,5", "1,234.5", "1,234,567",
\* "1.234.567", "1.234.56" and "1.2.3"
ExampleStrings ==
  {<<"1", "9", "7", "6">>, <<"2", "0", "2", "3">>, <<"1", "8", "5", "0">>,
   <<"3", "0", " ", "6", "0", "2", ",", "0">>,
   <<"1", " ", "2", "3", "4", ",", "5", "6">>,
   <<"1", "nbsp", "9", "7", "6">>,
   <<"1", "2", ".", "5">>, <<"1", "2", ",", "5">>,
   <<"-">>, s_Total,
   <<"1", ".", "2", "3", "4", ",", "5">>, <<"1", ",", "2", "3", "4", ".", "5">>,
   <<"1", ",", "2", "3", "4", ",", "5", "6", "7">>,
   <<"1", ".", "2", "3", "4", ".", "5", "6", "7">>,
   <<"1", ".", "2", "3", "4", ".", "5", "6">>, <<"1", ".", "2", ".", "3">>,
   \* "1-2", "+" and "1.2,3,4": no numbers
   <<"1", "-", "2">>, <<"+">>, <<"1", ".", "2", ",", "3", ",", "4">>}

ExampleNumbers ==
  {DecInt(0), Dec(5, 1), DecInt(1), DecInt(50), DecInt(-5), DecInt(1850),
   DecInt(1900), DecInt(1976), DecInt(2030), DecInt(2031), Dec(19505, 1),
   Dec(199996, 2), DecInt(30602),
   \* 1899.96 and 2030.04: a year once rounded to one decimal place
   Dec(189996, 2), Dec(203004, 2)}

RawCells ==
  {Cell(NoneVal, General)}
    \cup {Cell(Num(d), f) :
            d \in ExampleNumbers,
            \* the number formats General, 0.0 and #,##0.0
            f \in {General, <<"0", ".", "0">>,
                   <<"#", ",", "#", "#", "0", ".", "0">>}}
    \cup {Cell(Str(s), General) : s \in ExampleStrings \cup StringsUpTo(MaxStrLen)}

-----------------------------------------------------------------------------
(* Semantic equivalence and coordinate keys *)

s_EmBranco == <<"(", "E", "m", " ", "b", "r", "a", "n", "c", "o", ")">>
s_Hotelaria == <<"H", "o", "t", "e", "l", "a", "r", "i", "a">>
\* '*' repeated k times, and str(k)
Stars(k) == [i \in 1..k |-> "*"]

\* The dictionary equivalence_map of apply_semantic_equivalence, as <<key, value>>.
equivalence_map ==
  << <<Stars(4), <<"4">>>>, <<Stars(3), <<"3">>>>, <<Stars(2), <<"2">>>>,
     <<Stars(1), <<"1">>>>,
     <<s_Total, s_EmBranco>>,
     <<s_EmBranco, s_Total>>,
     <<<<"(", "e", "m", " ", "b", "r", "a", "n", "c", "o", ")">>, s_Total>>,
     <<<<"t", "o", "t", "a", "l">>, s_Total>>,
     <<<<"T", "O", "T", "A", "L">>, s_Total>>,
     \* "Estabelecimentos hoteleiros": "Hotelaria"
     <<<<"E", "s", "t", "a", "b", "e", "l", "e", "c", "i", "m", "e", "n", "t", "o",
         "s", " ", "h", "o", "t", "e", "l", "e", "i", "r", "o", "s">>,
       s_Hotelaria>>,
     <<<<"H", "o", "t", "e_ac", "i", "s">>, <<"H", "o", "t", "e", "l">>>>,
     <<<<"P", "e", "n", "s", "o_til", "e", "s">>,
       <<"P", "e", "n", "s", "a_til", "o">>>>,
     <<<<"M", "o", "t", "e_ac", "i", "s">>, <<"M", "o", "t", "e", "l">>>>,
     <<s_Hotelaria, s_Hotelaria>>,
     <<<<"H", "o", "t", "e", "l">>, <<"H", "o", "t", "e", "l">>>>,
     <<<<"P", "e", "n", "s", "a_til", "o">>, <<"P", "e", "n", "s", "a_til", "o">>>>,
     <<<<"M", "o", "t", "e", "l">>, <<"M", "o", "t", "e", "l">>>> >>

\* dict.get(key, default) on a dictionary written as a sequence of pairs
DictGet(d, key, default) ==
  IF \E i \in DOMAIN d : d[i][1] = key
  THEN d[CHOOSE i \in DOMAIN d : d[i][1] = key][2]
  ELSE default

apply_semantic_equivalence(header_text) ==
  IF header_text = <<>> THEN header_text
  ELSE LET clean_text == Strip(header_text)
       IN DictGet(equivalence_map, clean_text, clean_text)

\* A slip in the key: the headers are used as they are.
normalize_coordinate_key_raw(row, column) == <<row, column>>

normalize_coordinate_key(row, column) ==
  <<apply_semantic_equivalence(row), apply_semantic_equivalence(column)>>

-----------------------------------------------------------------------------
(* Dimension labels: normalize_dimension_label *)

\* self.semantic_equivalents, as <<key, value>>
semantic_equivalents ==
  <<
     <<<<"*", "*", "*", "*">>,
       <<"4">>>>,
     <<<<"*", "*", "*">>,
       <<"3">>>>,
     <<<<"*", "*">>,
       <<"2">>>>,
     <<<<"*">>,
       <<"1">>>>,
     <<<<"T", "o", "t", "a", "l">>,
       <<"(", "E", "m", " ", "b", "r", "a", "n", "c", "o", ")">>>>,
     <<<<"(", "E", "m", " ", "b", "r", "a", "n", "c", "o", ")">>,
       <<"T", "o", "t", "a", "l">>>>,
     <<<<"(", "e", "m", " ", "b", "r", "a", "n", "c", "o", ")">>,
       <<"T", "o", "t", "a", "l">>>>,
     <<<<"t", "o", "t", "a", "l">>,
       <<"T", "o", "t", "a", "l">>>>,
     <<<<"E", "s", "t", "a", "b", "e", "l", "e", "c", "i", "m", "e", "n", "t", "o", "s", " ", "h", "o", "t", "e", "l", "e", "i", "r", "o", "s">>,
       <<"H", "o", "t", "e", "l", "a", "r", "i", "a">>>>,
     <<<<"H", "o", "t", "e", "l", "a", "r", "i", "a">>,
       <<"E", "s", "t", "a", "b", "e", "l", "e", "c", "i", "m", "e", "n", "t", "o", "s", " ", "h", "o", "t", "e", "l", "e", "i", "r", "o", "s">>>>,
     <<<<"H", "o", "t", "e_ac", "i", "s">>,
       <<"H", "o", "t", "e", "l">>>>,
     <<<<"H", "o", "t", "e", "l">>,
       <<"H", "o", "t", "e_ac", "i", "s">>>>,
     <<<<"P", "e", "n", "s", "o_til", "e", "s">>,
       <<"P", "e", "n", "s", "a_til", "o">>>>,
     <<<<"P", "e", "n", "s", "a_til", "o">>,
       <<"P", "e", "n", "s", "o_til", "e", "s">>>>,
     <<<<"P", "o", "u", "s", "a", "d", "a", "s">>,
       <<"P", "o", "u", "s", "a", "d", "a">>>>,
     <<<<"P", "o", "u", "s", "a", "d", "a">>,
       <<"P", "o", "u", "s", "a", "d", "a", "s">>>>,
     <<<<"M", "o", "t", "e_ac", "i", "s">>,
       <<"M", "o", "t", "e", "l">>>>,
     <<<<"M", "o", "t", "e", "l">>,
       <<"M", "o", "t", "e_ac", "i", "s">>>>,
     <<<<"H", "o", "t", "e_ac", "i", "s", "-", "a", "p", "a", "r", "t", "a", "m", "e", "n", "t", "o", "s">>,
       <<"H", "o", "t", "e", "l", "-", "a", "p", "a", "r", "t", "a", "m", "e", "n", "t", "o">>>>,
     <<<<"H", "o", "t", "e", "l", "-", "a", "p", "a", "r", "t", "a", "m", "e", "n", "t", "o">>,
       <<"H", "o", "t", "e_ac", "i", "s", "-", "a", "p", "a", "r", "t", "a", "m", "e", "n", "t", "o", "s">>>>,
     <<<<"n", ".", "o_ord">>,
       <<"n", "ú", "m", "e", "r", "o">>>>,
     <<<<"n", "ú", "m", "e", "r", "o">>,
       <<"n", ".", "o_ord">>>> >>

\* special_cases of normalize_dimension_label
special_cases ==
  {
   <<"(", "e", "m", " ", "b", "r", "a", "n", "c", "o", ")">>,
   <<"e", "m", " ", "b", "r", "a", "n", "c", "o">>,
   <<"b", "l", "a", "n", "k">>, <<"(", "b", "l", "a", "n", "k", ")">>,
   <<"v", "a", "z", "i", "o">>, <<"(", "v", "a", "z", "i", "o", ")">>, <<>>,
   <<"t", "o", "t", "a", "l">>, <<"t", "o", "d", "o", "s">>,
   <<"g", "e", "r", "a", "l">>, <<"s", "u", "m">>, <<"s", "o", "m", "a">>,
   <<"a", "l", "l">>, <<"c", "o", "n", "j", "u", "n", "t", "o">>,
   <<"(", "t", "o", "t", "a", "l", ")">>,
   <<"(", "t", "o", "d", "o", "s", ")">>,
   <<"(", "g", "e", "r", "a", "l", ")">>, <<"t", "o", "t", "a", "i", "s">> }

\* The first place from p on whose character is not of the class.
RECURSIVE SkipClass(_, _, _)
SkipClass(s, p, class) ==
  IF p <= Len(s) /\ s[p] \in class THEN SkipClass(s, p + 1, class) ELSE p

Whitespace == {" ", "nbsp", "tab"}

\* Steps of a match under re.IGNORECASE.  A step takes the place p where the
\* match stands (0: it has failed) and gives the place after what it consumed.
\* A literal word, written in lower case.
Lit(s, p, word) ==
  IF p > 0 /\ p + Len(word) - 1 <= Len(s)
           /\ Lower(SubSeq(s, p, p + Len(word) - 1)) = word
  THEN p + Len(word) ELSE 0
\* c? for a character c
Opt(s, p, c) == IF p > 0 /\ p <= Len(s) /\ LowerChar(s[p]) = c THEN p + 1 ELSE p
\* \s* and \d*
Star(s, p, class) == IF p > 0 THEN SkipClass(s, p, class) ELSE 0
\* \s+ and \d+
Plus(s, p, class) == IF p > 0 /\ SkipClass(s, p, class) > p THEN SkipClass(s, p, class) ELSE 0

\* A match: the place after it (0: no match at this place) and its
\* replacement.
Match(end, replacement) == [end |-> end, replacement |-> replacement]

\* r'\(em\s+branco\)': 'Total'
MatchEmBranco(s, p) ==
  Match(Lit(s, Plus(s, Lit(s, p, <<"(", "e", "m">>), Whitespace),
            <<"b", "r", "a", "n", "c", "o", ")">>),
        <<"T", "o", "t", "a", "l">>)

\* r'de\s+(\d+)\s+a\s+(\d+)': r'\1 - \2'
MatchDeXaY(s, p) ==
  LET x == Plus(s, Lit(s, p, <<"d", "e">>), Whitespace)
      x_end == Plus(s, x, Digits)
      y == Plus(s, Lit(s, Plus(s, x_end, Whitespace), <<"a">>), Whitespace)
      y_end == Plus(s, y, Digits)
  IN Match(y_end,
           IF y_end = 0 THEN <<>>
           ELSE SubSeq(s, x, x_end - 1) \o <<" ", "-", " ">>
                  \o SubSeq(s, y, y_end - 1))

\* r'(\d+)\s*anos?\s*ou\s*mais': r'\1+'
MatchNOuMais(s, p) ==
  LET n_end == Plus(s, p, Digits)
      anos == Opt(s, Lit(s, Star(s, n_end, Whitespace), <<"a", "n", "o">>), "s")
      ou == Lit(s, Star(s, anos, Whitespace), <<"o", "u">>)
      mais == Lit(s, Star(s, ou, Whitespace), <<"m", "a", "i", "s">>)
  IN Match(mais, IF mais = 0 THEN <<>> ELSE SubSeq(s, p, n_end - 1) \o <<"+">>)

\* r'menos\s+de\s+(\d+)\s*anos?': r'< \1'
MatchMenosDeN(s, p) ==
  LET de == Lit(s, Plus(s, Lit(s, p, <<"m", "e", "n", "o", "s">>), Whitespace),
                <<"d", "e">>)
      n == Plus(s, de, Whitespace)
      n_end == Plus(s, n, Digits)
      anos == Opt(s, Lit(s, Star(s, n_end, Whitespace), <<"a", "n", "o">>), "s")
  IN Match(anos, IF anos = 0 THEN <<>> ELSE <<"<", " ">> \o SubSeq(s, n, n_end - 1))

\* r'^\s*-\s*$': 'Não especificado'
MatchDash(s, p) ==
  LET end == Star(s, Lit(s, Star(s, p, Whitespace), <<"-">>), Whitespace)
  IN Match(IF p = 1 /\ end = Len(s) + 1 THEN end ELSE 0,
           <<"N", "a_til", "o", " ", "e", "s", "p", "e", "c", "i", "f", "i", "c", "a", "d", "o">>)

\* r'n\.?\s*d\.?\s*': 'Não disponível'
MatchND(s, p) ==
  LET n == Opt(s, Lit(s, p, <<"n">>), ".")
      d == Opt(s, Lit(s, Star(s, n, Whitespace), <<"d">>), ".")
  IN Match(Star(s, d, Whitespace),
           <<"N", "a_til", "o", " ", "d", "i", "s", "p", "o", "n", "i_ac", "v", "e", "l">>)

\* self.dimension_patterns, in the order of the dictionary
dimension_patterns == 1..6

PatternMatch(pattern, s, p) ==
  CASE pattern = 1 -> MatchEmBranco(s, p)
    [] pattern = 2 -> MatchDeXaY(s, p)
    [] pattern = 3 -> MatchNOuMais(s, p)
    [] pattern = 4 -> MatchMenosDeN(s, p)
    [] pattern = 5 -> MatchDash(s, p)
    [] pattern = 6 -> MatchND(s, p)

\* re.sub(pattern, replacement, s, flags=re.IGNORECASE) from place p on: the
\* leftmost matches, one after the other.
RECURSIVE ReSubFrom(_, _, _)
ReSubFrom(pattern, s, p) ==
  IF p > Len(s) THEN <<>>
  ELSE IF PatternMatch(pattern, s, p).end > 0
       THEN PatternMatch(pattern, s, p).replacement
              \o ReSubFrom(pattern, s, PatternMatch(pattern, s, p).end)
       ELSE <<s[p]>> \o ReSubFrom(pattern, s, p + 1)

\* A slip in the normalizer: the patterns are not applied.
ApplyPatterns_none(pattern, s) == s

\* for pattern, replacement in self.dimension_patterns.items(): re.sub(...)
RECURSIVE ApplyPatterns(_, _)
ApplyPatterns(pattern, s) ==
  IF pattern \notin dimension_patterns THEN s
  ELSE ApplyPatterns(pattern + 1, ReSubFrom(pattern, s, 1))

\* re.sub(r'\s+', ' ', s)
RECURSIVE CollapseWhitespace(_)
CollapseWhitespace(s) ==
  IF s = <<>> THEN <<>>
  ELSE IF IsSpace(Head(s))
       THEN <<" ">> \o CollapseWhitespace(SubSeq(s, SkipClass(s, 1, Whitespace), Len(s)))
       ELSE <<Head(s)>> \o CollapseWhitespace(Tail(s))

\* The label is None or a string; the result is a string.
normalize_dimension_label(label) ==
  IF label.t = "none" THEN <<"T", "o", "t", "a", "l">>
  ELSE LET str_label == Strip(label.s) IN
       IF Lower(str_label) \in special_cases THEN <<"T", "o", "t", "a", "l">>
       ELSE Strip(CollapseWhitespace(
              ApplyPatterns(1, DictGet(semantic_equivalents, str_label, str_label))))

\* _values_semantically_equivalent on the two normalized labels
NormalizedEquivalent(norm1, norm2) ==
  IF norm1 = norm2 THEN TRUE
  ELSE IF \E i \in DOMAIN semantic_equivalents : semantic_equivalents[i][1] = norm1
       THEN DictGet(semantic_equivalents, norm1, <<>>) = norm2
       ELSE IF \E i \in DOMAIN semantic_equivalents : semantic_equivalents[i][1] = norm2
            THEN DictGet(semantic_equivalents, norm2, <<>>) = norm1
            ELSE FALSE

-----------------------------------------------------------------------------
(* compare_simple_data *)

\* A data point as extract_simple_data_points builds it (the fields the
\* comparison reads).
Point(row, column, value, position) ==
  [row |-> row, column |-> column, value |-> value, position |-> position]

(* A Python dict keeps its keys in the order of their first insertion; an   *)
(* assignment to a key already present replaces the value in place.  A dict *)
(* is a sequence of [key, point] entries.                                   *)
MapHas(m, k) == \E i \in DOMAIN m : m[i].key = k
MapGet(m, k) == m[CHOOSE i \in DOMAIN m : m[i].key = k].point
\* A slip in the map: a key already present keeps its first point.
MapPut_first(m, k, p) ==
  IF MapHas(m, k) THEN m ELSE Append(m, [key |-> k, point |-> p])

MapPut(m, k, p) ==
  IF MapHas(m, k)
  THEN [i \in DOMAIN m |-> IF m[i].key = k THEN [key |-> k, point |-> p] ELSE m[i]]
  ELSE Append(m, [key |-> k, point |-> p])

\* for point in points: map[normalize_coordinate_key(row, column)] = point
RECURSIVE CoordinateMap(_)
CoordinateMap(points) ==
  IF points = <<>> THEN <<>>
  ELSE LET last == points[Len(points)]
       IN MapPut(CoordinateMap(SubSeq(points, 1, Len(points) - 1)),
                 normalize_coordinate_key(last.row, last.column), last)

\* A slip in the comparison: a difference equal to the tolerance is refused.
WithinTolerance_strict(value_diff, tolerance) == DecLT(value_diff, tolerance)

\* value_diff <= tolerance
WithinTolerance(value_diff, tolerance) == DecLE(value_diff, tolerance)

\* [f(x) for x in s if keep(x)]
SelectMap(s, keep(_), f(_)) ==
  LET kept == SelectSeq(s, keep) IN [i \in DOMAIN kept |-> f(kept[i])]

\* A slip in the last loop: every published key is reported.
MissingInRecreated_always(recreated_map, key) == TRUE

\* if key not in recreated_map
MissingInRecreated(recreated_map, key) == ~MapHas(recreated_map, key)

\* A slip in the statistics: the ratio, not the percentage.
AccuracyOf_ratio(correct_matches, total_comparisons) ==
  IF total_comparisons > 0
  THEN [num |-> correct_matches, den |-> total_comparisons]
  ELSE [num |-> 0, den |-> 1]

\* accuracy: the float num / den
AccuracyOf(correct_matches, total_comparisons) ==
  IF total_comparisons > 0
  THEN [num |-> correct_matches * 100, den |-> total_comparisons]
  ELSE [num |-> 0, den |-> 1]

compare_simple_data(published, recreated, tolerance) ==
  LET published_map == CoordinateMap(published)
      recreated_map == CoordinateMap(recreated)
      value_diff(e) ==
        DecAbs(DecSub(e.point.value, MapGet(published_map, e.key).value))
      is_match(e) ==
        MapHas(published_map, e.key) /\ WithinTolerance(value_diff(e), tolerance)
      is_difference(e) ==
        MapHas(published_map, e.key) /\ ~WithinTolerance(value_diff(e), tolerance)
      is_missing_in_published(e) == ~MapHas(published_map, e.key)
      is_missing_in_recreated(e) == MissingInRecreated(recreated_map, e.key)
      match_entry(e) ==
        [coordinates |-> e.key,
         published_value |-> MapGet(published_map, e.key).value,
         recreated_value |-> e.point.value,
         position |-> e.point.position,
         difference |-> value_diff(e)]
      difference_entry(e) ==
        [coordinates |-> e.key,
         published_value |-> MapGet(published_map, e.key).value,
         recreated_value |-> e.point.value,
         position |-> e.point.position,
         difference |-> DecSub(e.point.value, MapGet(published_map, e.key).value)]
      missing_published_entry(e) ==
        [coordinates |-> e.key,
         recreated_value |-> e.point.value,
         position |-> e.point.position]
      missing_recreated_entry(e) ==
        [coordinates |-> e.key, published_value |-> e.point.value]
      correct_matches == SelectMap(recreated_map, is_match, match_entry)
      value_differences == SelectMap(recreated_map, is_difference, difference_entry)
      missing_in_published ==
        SelectMap(recreated_map, is_missing_in_published, missing_published_entry)
      missing_in_recreated ==
        SelectMap(published_map, is_missing_in_recreated, missing_recreated_entry)
  IN [correct_matches |-> correct_matches,
      value_differences |-> value_differences,
      missing_in_published |-> missing_in_published,
      missing_in_recreated |-> missing_in_recreated,
      published_data_points |-> Len(published),
      recreated_data_points |-> Len(recreated),
      accuracy |-> AccuracyOf(Len(correct_matches), Len(recreated)),
      total_discrepancies |-> Len(value_differences) + Len(missing_in_published)]

-----------------------------------------------------------------------------
(* Worksheets.  A worksheet carries its dimensions, the cell of every       *)
(* position, its merged ranges and the path of its workbook.  The cells of  *)
(* a merged range other than its top-left cell hold no value.               *)

Worksheet(max_row, max_column, cells, merged, path) ==
  [max_row |-> max_row, max_column |-> max_column, cells |-> cells,
   merged |-> merged, path |-> path]

MergedRange(min_row, max_row, min_col, max_col) ==
  [min_row |-> min_row, max_row |-> max_row, min_col |-> min_col,
   max_col |-> max_col]

\* ws.cell(row=row, column=col)
CellAt(ws, row, col) == ws.cells[<<row, col>>]

get_merged_cell_value(ws, row, col) ==
  IF CellAt(ws, row, col).value.t # "none" THEN CellAt(ws, row, col).value
  ELSE IF \E m \in ws.merged : /\ m.min_row <= row /\ row <= m.max_row
                               /\ m.min_col <= col /\ col <= m.max_col
       THEN LET m == CHOOSE m \in ws.merged :
                       /\ m.min_row <= row /\ row <= m.max_row
                       /\ m.min_col <= col /\ col <= m.max_col
            IN CellAt(ws, m.min_row, m.min_col).value
       ELSE NoneVal

\* A slip in the expansion: the edge is left where the data starts.
ExpandedEdge_none(edge) == edge

\* The margin find_data_table moves an edge out by.
Margin == 5

\* max(1, min_row - 5)
ExpandedEdge(edge) == IF edge - Margin > 1 THEN edge - Margin ELSE 1

\* The box of a non-empty set of positions, its top and left edge moved out.
ExpandedBox(found) ==
  LET Min(S) == CHOOSE x \in S : \A y \in S : x <= y
      Max(S) == CHOOSE x \in S : \A y \in S : x >= y
      rows == {p[1] : p \in found}
      cols == {p[2] : p \in found}
  IN [min_row |-> ExpandedEdge(Min(rows)), max_row |-> Max(rows),
      min_col |-> ExpandedEdge(Min(cols)), max_col |-> Max(cols)]

\* The positions of the cells find_data_table counts as data cells.
DataCellPositions(ws) == {p \in DOMAIN ws.cells : DetectorAccepts(ws.cells[p])}

\* find_data_table: the box of the cells the detector accepts, its top and
\* left edge moved out by 5 (not past 1); the whole sheet when there are none.
find_data_table(ws) ==
  IF DataCellPositions(ws) = {}
  THEN [min_row |-> 1, max_row |-> ws.max_row,
        min_col |-> 1, max_col |-> ws.max_column]
  ELSE ExpandedBox(DataCellPositions(ws))

-----------------------------------------------------------------------------
(* Header location *)

invalid_headers ==
  {<<"-">>, <<".">>, <<"bullet">>, <<"*">>, <<"*", "*">>, <<"*", "*", "*">>,
    <<"*", "*", "*", "*">>, <<"_">>, <<"(", ")">>, <<"(", " ", ")">>,
    <<":">>, <<";">>, <<",">>, <<"|">>, <<"/">>, <<"\\">>, <<"+">>, <<"=">>,
    <<"#">>, <<"@">>, <<"!">>, <<"?">> }

valid_patterns ==
  {<<"h", "o", "t", "e", "l">>,
    <<"h", "o", "t", "e", "l", "a", "r", "i", "a">>,
    <<"a", "l", "o", "j", "a", "m", "e", "n", "t", "o">>,
    <<"t", "o", "t", "a", "l">>,
    <<"e", "s", "t", "a", "b", "e", "l", "e", "c", "i", "m", "e", "n", "t", "o">>,
    <<"p", "e", "n", "s", "a_til", "o">>, <<"m", "o", "t", "e", "l">>,
    <<"t", "u", "r", "i", "s", "m", "o">>, <<"b", "r", "a", "n", "c", "o">>,
    <<"e", "m", " ", "b", "r", "a", "n", "c", "o">>,
    <<"g", "e", "r", "a", "l">>,
    <<"c", "o", "n", "t", "i", "n", "e", "n", "t", "e">>,
    <<"a", "c_ced", "o", "r", "e", "s">>,
    <<"m", "a", "d", "e", "i", "r", "a">>,
    <<"r", "e", "g", "i", "a_til", "o">>,
    <<"n", "a", "c", "i", "o", "n", "a", "l">>, <<"a", "b", "r", "i", "l">>,
    <<"m", "a", "i", "o">>, <<"j", "u", "n", "h", "o">>,
    <<"j", "u", "l", "h", "o">>, <<"a", "g", "o", "s", "t", "o">>,
    <<"j", "a", "n", "e", "i", "r", "o">>,
    <<"f", "e", "v", "e", "r", "e", "i", "r", "o">>,
    <<"m", "a", "r", "c_ced", "o">>,
    <<"s", "e", "t", "e", "m", "b", "r", "o">>,
    <<"o", "u", "t", "u", "b", "r", "o">>,
    <<"n", "o", "v", "e", "m", "b", "r", "o">>,
    <<"d", "e", "z", "e", "m", "b", "r", "o">>,
    <<"c", "a", "t", "e", "g", "o", "r", "i", "a">>, <<"t", "i", "p", "o">>,
    <<"c", "l", "a", "s", "s", "e">>, <<"s", "t", "a", "r">>,
    <<"e", "s", "t", "r", "e", "l", "a">>, <<"n", "o", "r", "t", "e">>,
    <<"c", "e", "n", "t", "r", "o">>, <<"s", "u", "l">>,
    <<"l", "i", "s", "b", "o", "a">>, <<"p", "o", "r", "t", "o">> }

portuguese_chars == {"a_til", "c_ced", "e_ac", "i_ac", "o_ac", "u_ac", "a_circ", "e_circ", "o_circ"}

\* float(text.replace(',', '.'))
ParseFloatComma(text) == ParseFloat(ReplaceChar(text, ",", "."))

\* float(...) succeeded and the number is greater than limit
ParsedAbove(parsed, limit) == parsed.ok /\ DecLT(DecInt(limit), parsed.n)

\* any(pattern in text for pattern in patterns)
ContainsAny(text, patterns) == \E pattern \in patterns : Contains(text, pattern)

\* any(c in text for c in chars)
HasAnyChar(text, chars) == \E i \in 1..Len(text) : text[i] \in chars

_is_valid_row_header(header_text) ==
  IF header_text = <<>> \/ Len(Strip(header_text)) < 2 THEN FALSE
  ELSE IF Strip(header_text) \in invalid_headers THEN FALSE
  ELSE IF ParsedAbove(ParseFloatComma(Strip(header_text)), 1000) THEN FALSE
  ELSE \/ ContainsAny(Lower(Strip(header_text)), valid_patterns)
       \/ Len(Strip(header_text)) >= 5
       \/ HasAnyChar(Lower(Strip(header_text)), portuguese_chars)

\* <<text>> when text is a valid row header, <<>> otherwise.
ValidRowHeader(clean_value) ==
  IF _is_valid_row_header(clean_value) THEN <<clean_value>> ELSE <<>>

\* What every row header strategy does with one cell: a non-empty text cell
\* whose stripped text is a valid row header yields that text.
RowHeaderIn(c) ==
  IF Truthy(c.value) /\ c.value.t = "str"
  THEN ValidRowHeader(Strip(c.value.s))
  ELSE <<>>

\* The first of several results that found something, <<>> when none did.
RECURSIVE FirstFound(_)
FirstFound(tries) ==
  IF tries = <<>> THEN <<>>
  ELSE IF Head(tries) # <<>> THEN Head(tries)
  ELSE FirstFound(Tail(tries))

\* The first row header met on a list of positions, <<>> when there is none.
FirstRowHeader(ws, positions) ==
  FirstFound([i \in DOMAIN positions |->
                RowHeaderIn(CellAt(ws, positions[i][1], positions[i][2]))])

\* The header a search found, the fallback label when it found none.
HeaderOr(found, fallback) == IF found # <<>> THEN found[1] ELSE fallback

Min2(a, b) == IF a < b THEN a ELSE b
Max2(a, b) == IF a > b THEN a ELSE b

\* range(data_col - 1, max(0, data_col - max_search_cols), -1) along data_row
LeftwardPositions(data_row, data_col, max_search_cols) ==
  [i \in 1..(data_col - 1 - Max2(0, data_col - max_search_cols)) |->
     <<data_row, data_col - i>>]

\* The anchors of the merged ranges that span data_row.
\* The anchors of the merged ranges that span data_row (a sheet of the model
\* has at most one merged range).
MergedRowAnchors(ws, data_row) ==
  IF \E m \in ws.merged : m.min_row <= data_row /\ data_row <= m.max_row
  THEN <<(CHOOSE a \in {<<m.min_row, m.min_col>> : m \in
            {m \in ws.merged : m.min_row <= data_row /\ data_row <= m.max_row}} :
            TRUE)>>
  ELSE <<>>

s_Row_ == <<"R", "o", "w", "_">>
s_Col_ == <<"C", "o", "l", "_">>

\* offset 1..most, direction -1 then +1, and within each the given columns
\* (count of them, the first at first_col); only positions on the sheet.
VerticalPositions(ws, data_row, most, first_col, count) ==
  SelectSeq([k \in 1..(most * 2 * count) |->
               <<data_row + ((k - 1) \div (2 * count) + 1)
                              * (IF ((k - 1) % (2 * count)) \div count = 0
                                 THEN -1 ELSE 1),
                 first_col + ((k - 1) % count)>>],
            LAMBDA p : /\ 1 <= p[1] /\ p[1] <= ws.max_row
                       /\ 1 <= p[2] /\ p[2] <= ws.max_column)

\* Strategies A to E look, in this order, at column 1 of the row, at columns
\* 2 to 5 of the row, at the anchors of merged ranges over the row, leftward
\* from the cell, and at columns 1 to 5 of the rows up to 7 above and below.
_find_row_header_published(ws, data_row, data_col) ==
  HeaderOr(
    FirstRowHeader(ws,
      <<<<data_row, 1>>>>
        \o SelectSeq([i \in 1..4 |-> <<data_row, i + 1>>],
                     LAMBDA p : p[2] <= ws.max_column)
        \o MergedRowAnchors(ws, data_row)
        \o LeftwardPositions(data_row, data_col, Min2(data_col - 1, 15))
        \o VerticalPositions(ws, data_row, 7, 1, 5)),
    s_Row_ \o NatToStr(data_row))

target_patterns ==
  {<<"T", "o", "t", "a", "l">>, <<"H", "o", "t", "e_ac", "i", "s">>,
    <<"H", "o", "t", "e", "l", "a", "r", "i", "a">>,
    <<"P", "e", "n", "s", "o_til", "e", "s">>,
    <<"M", "o", "t", "e_ac", "i", "s">>,
    <<"A", "l", "o", "j", "a", "m", "e", "n", "t", "o">>,
    <<"E", "s", "t", "a", "b", "e", "l", "e", "c", "i", "m", "e", "n", "t", "o", "s">>,
    <<"T", "u", "r", "i", "s", "m", "o">>, <<"A", "b", "r", "i", "l">>,
    <<"M", "a", "i", "o">>, <<"J", "u", "n", "h", "o">>,
    <<"J", "u", "l", "h", "o">>, <<"A", "g", "o", "s", "t", "o">>,
    <<"J", "a", "n", "e", "i", "r", "o">>,
    <<"F", "e", "v", "e", "r", "e", "i", "r", "o">>,
    <<"M", "a", "r", "c_ced", "o">>,
    <<"S", "e", "t", "e", "m", "b", "r", "o">>,
    <<"O", "u", "t", "u", "b", "r", "o">>,
    <<"N", "o", "v", "e", "m", "b", "r", "o">>,
    <<"D", "e", "z", "e", "m", "b", "r", "o">> }

\* Strategy 4: the first text cell of the row that contains a target pattern.
PatternRowHeader(ws, data_row) ==
  FirstFound([col \in 1..ws.max_column |->
     IF /\ Truthy(CellAt(ws, data_row, col).value)
        /\ CellAt(ws, data_row, col).value.t = "str"
        /\ \E pattern \in target_patterns :
             Contains(Lower(Strip(CellAt(ws, data_row, col).value.s)), Lower(pattern))
     THEN <<Strip(CellAt(ws, data_row, col).value.s)>>
     ELSE <<>>])

\* Strategies 1 to 3 look leftward from the cell, at the columns within 5 of
\* the cell in the rows up to 10 above and below, and at the anchors of
\* merged ranges over the row; strategy 4 looks for a target pattern.
_find_row_header_recreated(ws, data_row, data_col) ==
  HeaderOr(
    FirstFound(<<
      FirstRowHeader(ws,
        LeftwardPositions(data_row, data_col,
                          Min2(data_col - 1, (ws.max_column * 8) \div 10))
          \o VerticalPositions(ws, data_row, 10, data_col - 5, 11)
          \o MergedRowAnchors(ws, data_row)),
      PatternRowHeader(ws, data_row)>>),
    s_Row_ \o NatToStr(data_row))

s_result == <<"r", "e", "s", "u", "l", "t">>

find_row_header(ws, data_row, data_col) ==
  IF Contains(Lower(ws.path), s_result)
  THEN _find_row_header_recreated(ws, data_row, data_col)
  ELSE _find_row_header_published(ws, data_row, data_col)


published_patterns ==
  {<<"c", "a", "t", "e", "g", "o", "r", "i", "a">>,
    <<"e", "s", "t", "a", "b", "e", "l", "e", "c", "i", "m", "e", "n", "t", "o", "s">>,
    <<"t", "o", "t", "a", "l">> }

\* cell.value and self.is_year(cell.value)
IsYearCell(c) == Truthy(c.value) /\ is_year(c.value)

_detect_published_file_type(ws, data_row, data_col) ==
  \/ data_row <= 10
  \/ /\ 10 < data_row /\ data_row < 20
     /\ \E check_row \in 1..6 :
          check_row <= ws.max_row /\ IsYearCell(CellAt(ws, check_row, data_col))
  \/ \E check_col \in {1, 2} :
       /\ check_col <= ws.max_column
       /\ LET c == CellAt(ws, data_row, check_col) IN
          /\ Truthy(c.value) /\ c.value.t = "str"
          /\ \E pattern \in published_patterns : Contains(Lower(c.value.s), pattern)
  \/ data_row >= 30

valid_column_patterns ==
  {<<"u", "n", "i", "d", "a", "d", "e">>, <<"t", "o", "t", "a", "l">>,
    <<"a", "n", "o">>, <<"m", "e_circ", "s">>,
    <<"p", "e", "r", "i_ac", "o", "d", "o">>,
    <<"t", "r", "i", "m", "e", "s", "t", "r", "e">>,
    <<"s", "e", "m", "e", "s", "t", "r", "e">>, <<"f", "o", "n", "t", "e">>,
    <<"n", "o", "t", "a">> }

\* str(int(float(x))) of a number x >= 0
YearStr(d) == NatToStr(DecTrunc(d))

\* The number a year cell holds: float(cell.value)
YearCellNumber(c) == IF c.value.t = "str" THEN ParseFloat(c.value.s).n ELSE c.value.n

\* A text cell of the upward scan whose text float() reads: a year in range
\* is the header, any other number is passed over.
ColumnHeaderNumber(year_test) ==
  IF InYearRange(year_test) THEN <<YearStr(year_test)>> ELSE <<>>

\* A text cell of the upward scan whose text is not a number.
ColumnHeaderText(clean_value) ==
  IF ContainsAny(Lower(clean_value), valid_column_patterns) \/ Len(clean_value) >= 4
  THEN <<clean_value>>
  ELSE <<>>

ColumnHeaderString(clean_value) ==
  IF clean_value \in invalid_headers THEN <<>>
  ELSE IF Len(clean_value) < 2 THEN <<>>
  ELSE IF ParseFloatComma(clean_value).ok
       THEN ColumnHeaderNumber(ParseFloatComma(clean_value).n)
  ELSE ColumnHeaderText(clean_value)

(* What the general upward scan of find_column_header does with one cell:   *)
(* <<header>> when the cell is returned as the column header, <<>> when the *)
(* scan moves on to the next row.                                           *)
ColumnHeaderIn(c) ==
  IF ~Truthy(c.value) THEN <<>>
  ELSE IF c.value.t = "str" THEN ColumnHeaderString(Strip(c.value.s))
  ELSE ColumnHeaderNumber(c.value.n)

\* range(data_row - 1, max(0, data_row - max_search_rows), -1), with
\* max_search_rows = min(data_row - 1, 30)
UpwardRows(data_row) ==
  [i \in 1..(data_row - 1 - Max2(0, data_row - Min2(data_row - 1, 30))) |->
     data_row - i]

\* The rows the published strategies A, B, C and D look a year up in, in order.
PublishedYearRows == <<1, 2, 3, 4, 5, 6, 16, 17, 14, 15, 18, 19, 20>>

\* What a published strategy does with one cell: a year cell yields its year.
YearHeaderIn(c) ==
  IF IsYearCell(c) THEN <<YearStr(YearCellNumber(c))>> ELSE <<>>

\* The year the published strategies find in the column, <<>> when none.
PublishedYearHeader(ws, data_col) ==
  FirstFound([i \in DOMAIN PublishedYearRows |->
                IF PublishedYearRows[i] <= ws.max_row
                THEN YearHeaderIn(CellAt(ws, PublishedYearRows[i], data_col))
                ELSE <<>>])

\* The header the general upward scan finds, <<>> when none.
ScannedColumnHeader(ws, data_row, data_col) ==
  FirstFound([i \in DOMAIN UpwardRows(data_row) |->
                ColumnHeaderIn(CellAt(ws, UpwardRows(data_row)[i], data_col))])

find_column_header(ws, data_row, data_col) ==
  HeaderOr(
    FirstFound(<<
      IF _detect_published_file_type(ws, data_row, data_col)
      THEN PublishedYearHeader(ws, data_col)
      ELSE <<>>,
      ScannedColumnHeader(ws, data_row, data_col)>>),
    s_Col_ \o NatToStr(data_col))

StartsWith(s, prefix) ==
  Len(s) >= Len(prefix) /\ SubSeq(s, 1, Len(prefix)) = prefix

validate_coordinate_pair(row_header, column_header, value) ==
  IF row_header \in invalid_headers THEN FALSE
  ELSE IF column_header \in invalid_headers THEN FALSE
  ELSE IF ParsedAbove(ParseFloatComma(row_header), 1000) THEN FALSE
  ELSE IF ParsedAbove(ParseFloatComma(column_header), 2030) THEN FALSE
  ELSE IF Len(Strip(row_header)) < 2 /\ ~StartsWith(row_header, s_Row_) THEN FALSE
  ELSE IF Len(Strip(column_header)) < 2 /\ ~StartsWith(column_header, s_Col_)
       THEN FALSE
  ELSE TRUE

-----------------------------------------------------------------------------
(* extract_simple_data_points *)

DataPoint(row, column, value, position, original_row, original_column) ==
  [row |-> row, column |-> column, value |-> value, position |-> position,
   original_row |-> original_row, original_column |-> original_column]

\* The end of the loop body: the coordinates are validated and the point built.
PointWithHeaders(value, position, row_header, column_header) ==
  IF ~validate_coordinate_pair(row_header, column_header, value) THEN <<>>
  ELSE <<DataPoint(apply_semantic_equivalence(row_header),
                   apply_semantic_equivalence(column_header),
                   value, position, row_header, column_header)>>

\* The loop body from the displayed value on.
PointWithValue(ws, row, col, value) ==
  IF value.t = "none" THEN <<>>
  ELSE PointWithHeaders(value.n, <<row, col>>, find_row_header(ws, row, col),
                        find_column_header(ws, row, col))

\* One pass of the loop body: the data points (none or one) the cell yields.
PointsOfCell(ws, row, col) ==
  IF ~is_data_cell(CellAt(ws, row, col)) THEN <<>>
  ELSE PointWithValue(ws, row, col, get_displayed_value(CellAt(ws, row, col)))

\* The loop over the rows and, within a row, the columns; k counts the cells.
RECURSIVE PointsFrom(_, _)
PointsFrom(ws, k) ==
  IF k > ws.max_row * ws.max_column THEN <<>>
  ELSE PointsOfCell(ws, (k - 1) \div ws.max_column + 1,
                        ((k - 1) % ws.max_column) + 1)
         \o PointsFrom(ws, k + 1)

extract_simple_data_points(ws) == PointsFrom(ws, 1)

-----------------------------------------------------------------------------
(* SpecValue: one raw cell is put through every test the engine applies to *)
(* decide whether a cell is a data value, in the order detector (region    *)
(* detection), extractor (is_data_cell) and get_displayed_value.           *)

ValueIdle ==
  /\ cell = Cell(NoneVal, General)
  /\ val_pc = "idle"
  /\ nv_result = <<>>
  /\ lh_result = <<>>
  /\ det_result = <<>>
  /\ yr_result = <<>>
  /\ dc_result = <<>>
  /\ dv_result = <<>>

CompareIdle ==
  /\ numeric_tolerance = DecInt(1)
  /\ published_points = <<>>
  /\ recreated_points = <<>>
  /\ results = <<>>
  /\ cmp_pc = "idle"

EmptyCell == Cell(NoneVal, General)

NoSheet == Worksheet(1, 1, [p \in {<<1, 1>>} |-> EmptyCell], {}, <<>>)

ExtractIdle ==
  /\ sheet = NoSheet
  /\ table_bounds = <<>>
  /\ data_points = <<>>
  /\ ext_pc = "idle"

\* A workbook load_workbook cannot open: the file is missing or is no
\* spreadsheet.
Unreadable == [readable |-> FALSE, sheets |-> <<>>]

\* A workbook that opens: sheets maps the names of its sheets to worksheets.
Workbook(sheets) == [readable |-> TRUE, sheets |-> sheets]

\* results['overall_stats'] as compare_files creates it.
NoStats ==
  [total_published_points |-> 0, total_recreated_points |-> 0,
   total_correct_matches |-> 0, total_value_differences |-> 0,
   total_missing_in_published |-> 0, total_missing_in_recreated |-> 0,
   overall_accuracy |-> [num |-> 0, den |-> 1]]

FilesIdle ==
  /\ published_file = Unreadable
  /\ recreated_file = Unreadable
  /\ sheet_names = <<>>
  /\ sheet_index = 1
  /\ sheet_results = <<>>
  /\ overall_stats = NoStats
  /\ cf_pc = "idle"

LabelIdle ==
  /\ value1 = NoneVal
  /\ value2 = NoneVal
  /\ norm_value1 = <<>>
  /\ norm_value2 = <<>>
  /\ vse_result = <<>>
  /\ vse_pc = "idle"

FillIdle ==
  /\ fill = [patternType |-> "None", fgColor |-> [type |-> "rgb", rgb |-> "00000000", theme |-> 0, indexed |-> 0]]
  /\ unset_attribute = "None"
  /\ hbc_result = <<>>
  /\ hbc_pc = "idle"

NameIdle ==
  /\ columns = <<>>
  /\ consolidated_name = <<>>
  /\ name_valid = <<>>
  /\ name_pc = "idle"

IntegrityIdle ==
  /\ original_df = <<>>
  /\ converted_df = <<>>
  /\ is_json = FALSE
  /\ integrity = <<>>
  /\ integ_pc = "idle"

ConsolidatorIdle ==
  /\ loaded_df = [columns |-> <<>>, data |-> <<>>]
  /\ dry_run = FALSE
  /\ candidates = <<>>
  /\ consolidated_df = [columns |-> <<>>, data |-> <<>>]
  /\ report = <<>>
  /\ cons_pc = "idle"

notValueVars == <<compareVars, extractVars, filesVars, labelVars,
  fillVars,
  nameVars,
  integrityVars,
  consolidatorVars>>
notCompareVars == <<valueVars, extractVars, filesVars, labelVars,
  fillVars,
  nameVars,
  integrityVars,
  consolidatorVars>>
notExtractVars == <<valueVars, compareVars, filesVars, labelVars,
  fillVars,
  nameVars,
  integrityVars,
  consolidatorVars>>
notLabelVars == <<valueVars, compareVars, extractVars, filesVars,
  fillVars,
  nameVars,
  integrityVars,
  consolidatorVars>>
notFillVars == <<valueVars, compareVars, extractVars, filesVars, labelVars,
  nameVars,
  integrityVars,
  consolidatorVars>>
notNameVars == <<valueVars, compareVars, extractVars, filesVars, labelVars, fillVars,
  integrityVars,
  consolidatorVars>>
notIntegrityVars == <<valueVars, compareVars, extractVars, filesVars, labelVars, fillVars, nameVars,
  consolidatorVars>>
notConsolidatorVars == <<valueVars, compareVars, extractVars, filesVars, labelVars, fillVars, nameVars, integrityVars>>

InitValue ==
  /\ ConsolidatorIdle
  /\ IntegrityIdle
  /\ NameIdle
  /\ FillIdle
  /\ CompareIdle
  /\ ExtractIdle
  /\ FilesIdle
  /\ LabelIdle
  /\ cell \in RawCells
  /\ val_pc = "normalize_value"
  /\ nv_result = <<>>
  /\ lh_result = <<>>
  /\ det_result = <<>>
  /\ yr_result = <<>>
  /\ dc_result = <<>>
  /\ dv_result = <<>>

NormalizeValue ==
  /\ val_pc = "normalize_value"
  /\ nv_result' = <<normalize_value(cell.value)>>
  /\ val_pc' = "_is_likely_header"
  /\ UNCHANGED <<cell, lh_result, det_result, yr_result, dc_result, dv_result>>
  /\ UNCHANGED notValueVars

IsLikelyHeader ==
  /\ val_pc = "_is_likely_header"
  /\ lh_result' = <<_is_likely_header(cell)>>
  /\ val_pc' = "find_data_table"
  /\ UNCHANGED <<cell, nv_result, det_result, yr_result, dc_result, dv_result>>
  /\ UNCHANGED notValueVars

DetectorTest ==
  /\ val_pc = "find_data_table"
  /\ det_result' = <<DetectorAccepts(cell)>>
  /\ val_pc' = "is_year"
  /\ UNCHANGED <<cell, nv_result, lh_result, yr_result, dc_result, dv_result>>
  /\ UNCHANGED notValueVars

IsYear ==
  /\ val_pc = "is_year"
  /\ yr_result' = <<is_year(cell.value)>>
  /\ val_pc' = "is_data_cell"
  /\ UNCHANGED <<cell, nv_result, lh_result, det_result, dc_result, dv_result>>
  /\ UNCHANGED notValueVars

IsDataCell ==
  /\ val_pc = "is_data_cell"
  /\ dc_result' = <<is_data_cell(cell)>>
  /\ val_pc' = "get_displayed_value"
  /\ UNCHANGED <<cell, nv_result, lh_result, det_result, yr_result, dv_result>>
  /\ UNCHANGED notValueVars

GetDisplayedValue ==
  /\ val_pc = "get_displayed_value"
  /\ dv_result' = <<get_displayed_value(cell)>>
  /\ val_pc' = "done"
  /\ UNCHANGED <<cell, nv_result, lh_result, det_result, yr_result, dc_result>>
  /\ UNCHANGED notValueVars

NextValue ==
  \/ NormalizeValue
  \/ IsLikelyHeader
  \/ DetectorTest
  \/ IsYear
  \/ IsDataCell
  \/ GetDisplayedValue

SpecValue == InitValue /\ [][NextValue]_vars


-----------------------------------------------------------------------------
(* SpecCompare: compare_simple_data is called on two lists of data points. *)
(* The comparator is constructed with numeric_tolerance = 1.0, or has it   *)
(* configured to 0.5.  Within one run the row labels come from one star    *)
(* rating and the Total / blank pair; the column label is a year.          *)

Tolerances == {DecInt(1), Dec(5, 1)}

s_2020 == <<"2", "0", "2", "0">>

\* The star ratings the compared sheets use: the shortest glyph and the
\* longest.
ComparedRatings == {1, 4}

CompareRowLabels(k) == {Stars(k), NatToStr(k), s_Total, s_EmBranco}
CompareValues == {DecInt(100), DecInt(101)}

\* The lists of at most `most` points with row labels of star rating k; the
\* i-th point of a list sits in row i + 1 of its sheet.
PointLists(k, most) ==
  UNION {[1..len -> CompareRowLabels(k) \X CompareValues] : len \in 0..most}

AsPoints(list) ==
  [i \in DOMAIN list |-> Point(list[i][1], s_2020, list[i][2], <<i + 1, 2>>)]

InitCompare ==
  /\ ConsolidatorIdle
  /\ IntegrityIdle
  /\ NameIdle
  /\ FillIdle
  /\ ValueIdle
  /\ ExtractIdle
  /\ FilesIdle
  /\ LabelIdle
  /\ numeric_tolerance \in Tolerances
  /\ \E k \in ComparedRatings :
       /\ published_points \in {AsPoints(l) : l \in PointLists(k, MaxPublished)}
       /\ recreated_points \in {AsPoints(l) : l \in PointLists(k, MaxRecreated)}
  /\ results = <<>>
  /\ cmp_pc = "ready"

CompareSimpleData ==
  /\ cmp_pc = "ready"
  /\ results' = <<compare_simple_data(published_points, recreated_points,
                                      numeric_tolerance)>>
  /\ cmp_pc' = "done"
  /\ UNCHANGED <<numeric_tolerance, published_points, recreated_points>>
  /\ UNCHANGED notCompareVars

NextCompare == CompareSimpleData

SpecCompare == InitCompare /\ [][NextCompare]_vars

-----------------------------------------------------------------------------
(* SpecExtract: a worksheet is put through table detection                  *)
(* (find_data_table) and through extract_simple_data_points.  Neither reads *)
(* what the other produced; both read the same sheet.                       *)

\* The sheets hold their content in a window of WindowSize x WindowSize cells
\* that starts in row 1 or in row 10 (rows above the window are empty), with
\* at most MaxCells cells of the window filled.
WindowSize == 3
MaxCells == 3

RowOffsets == {0, 9}

s_dataset_path == <<"/", "x", "l", "/", "w", "o", "r", "k", "b", "o", "o", "k", ".", "x", "m", "l">>
s_result_path == <<"r", "e", "s", "u", "l", "t", "/", "6", "5", "_", "B", "D", ".", "x", "l", "s", "x">>

\* Workbook paths: the part name openpyxl gives a loaded workbook, and a
\* path that names the result directory.
WorkbookPaths == {s_dataset_path, s_result_path}

\* The result directory is tried with the table at the top of the sheet.
PathsAt(offset) == IF offset = 0 THEN WorkbookPaths ELSE {s_dataset_path}

CellPalette ==
  {Num(DecInt(50)), Num(Dec(5, 1)), Num(DecInt(2020)), Str(s_Hotelaria),
   Str(s_Total)}

WindowPositions == (1..WindowSize) \X (1..WindowSize)

\* The fillings of the window: at most MaxCells positions, each with a value.
WindowFillings ==
  UNION {[S -> CellPalette] :
           S \in {T \in SUBSET WindowPositions : Cardinality(T) <= MaxCells}}

\* No merged range; the two right cells of the window's first row merged;
\* the two lower cells of the window's first column merged.
MergedChoices(offset) ==
  { {},
    {MergedRange(offset + 1, offset + 1, 2, 3)},
    {MergedRange(offset + 2, offset + 3, 1, 1)} }

SheetOf(filling, offset, merged, path) ==
  Worksheet(offset + WindowSize, WindowSize,
            [p \in (1..(offset + WindowSize)) \X (1..WindowSize) |->
               IF <<p[1] - offset, p[2]>> \in DOMAIN filling
               THEN Cell(filling[<<p[1] - offset, p[2]>>], General)
               ELSE EmptyCell],
            merged, path)

\* Only the top-left cell of a merged range holds a value.
MergedWellFormed(ws) ==
  \A m \in ws.merged :
    \A r \in m.min_row..m.max_row, c \in m.min_col..m.max_col :
      <<r, c>> # <<m.min_row, m.min_col>> => CellAt(ws, r, c) = EmptyCell

InitExtract ==
  /\ ConsolidatorIdle
  /\ IntegrityIdle
  /\ NameIdle
  /\ FillIdle
  /\ ValueIdle
  /\ CompareIdle
  /\ FilesIdle
  /\ LabelIdle
  /\ \E filling \in WindowFillings, offset \in RowOffsets :
       \E merged \in MergedChoices(offset), path \in PathsAt(offset) :
         /\ sheet = SheetOf(filling, offset, merged, path)
         /\ MergedWellFormed(sheet)
  /\ table_bounds = <<>>
  /\ data_points = <<>>
  /\ ext_pc = "find_data_table"

FindDataTable ==
  /\ ext_pc = "find_data_table"
  /\ table_bounds' = <<find_data_table(sheet)>>
  /\ ext_pc' = "extract_simple_data_points"
  /\ UNCHANGED <<sheet, data_points>>
  /\ UNCHANGED notExtractVars

ExtractSimpleDataPoints ==
  /\ ext_pc = "extract_simple_data_points"
  /\ data_points' = extract_simple_data_points(sheet)
  /\ ext_pc' = "done"
  /\ UNCHANGED <<sheet, table_bounds>>
  /\ UNCHANGED notExtractVars

NextExtract ==
  \/ FindDataTable
  \/ ExtractSimpleDataPoints

SpecExtract == InitExtract /\ [][NextExtract]_vars


-----------------------------------------------------------------------------
(* SpecFiles: compare_files on a published and a recreated workbook and a   *)
(* list of requested sheet names.  For each name the points of the two      *)
(* sheets are extracted and compared; an exception inside the loop body is  *)
(* caught and recorded for the sheet.                                       *)

\* The longest list of requested sheet names.
MaxSheetNames == 2

SheetNames == {"S1", "S2"}

\* A sheet with a row header in A2, the year 2020 in B1 and a value in B2.
DataSheet(row_header, value) ==
  SheetOf((<<2, 1>> :> Str(row_header)) @@ (<<1, 2>> :> Num(DecInt(2020)))
            @@ (<<2, 2>> :> Num(DecInt(value))),
          0, {}, s_dataset_path)

\* A sheet without any cell, and a sheet that holds a title only.
BlankSheet == SheetOf(<<>>, 0, {}, s_dataset_path)
TitleSheet == SheetOf((<<1, 1>> :> Str(s_Hotelaria)), 0, {}, s_dataset_path)

\* The sheets a published workbook may hold, and a recreated one.
PublishedSheets == {TitleSheet, DataSheet(s_Total, 50)}
RecreatedSheets == {BlankSheet, DataSheet(s_Total, 50), DataSheet(s_Total, 52)}

\* The workbooks over a set of sheets: one that does not open, and the ones
\* that hold a sheet for some of the sheet names.
Workbooks(file_sheets) ==
  {Unreadable}
    \cup UNION {{Workbook(f) : f \in [names -> file_sheets]} :
                 names \in SUBSET SheetNames}

SheetNameLists ==
  UNION {[1..len -> SheetNames] : len \in 0..MaxSheetNames}

\* extract_simple_data_points(file_path, sheet_name, file_type): load_workbook
\* or wb[sheet_name] raises, the handler of the function returns [].
ExtractFrom(file, sheet_name) ==
  IF ~file.readable THEN <<>>
  ELSE IF sheet_name \notin DOMAIN file.sheets THEN <<>>
  ELSE extract_simple_data_points(file.sheets[sheet_name])

\* The entry the handler of the loop body stores for a sheet.
ErrorResult ==
  [error |-> "Exception", published_count |-> 0, recreated_count |-> 0,
   accuracy |-> [num |-> 0, den |-> 1], correct_matches |-> <<>>,
   value_differences |-> <<>>, missing_in_published |-> <<>>,
   missing_in_recreated |-> <<>>]

\* The statement that follows the body of the loop for the sheet at index.
AfterSheet(index) ==
  IF index < Len(sheet_names) THEN "extract_published" ELSE "summary"

\* The statistics after the results of one more sheet are added.
StatsWith(stats, comparison_results) ==
  [stats EXCEPT
     !.total_published_points = @ + comparison_results.published_data_points,
     !.total_recreated_points = @ + comparison_results.recreated_data_points,
     !.total_correct_matches = @ + Len(comparison_results.correct_matches),
     !.total_value_differences = @ + Len(comparison_results.value_differences),
     !.total_missing_in_published =
        @ + Len(comparison_results.missing_in_published),
     !.total_missing_in_recreated =
        @ + Len(comparison_results.missing_in_recreated)]

\* overall_accuracy: the float num / den
OverallAccuracy(total_correct, total_recreated) ==
  IF total_recreated > 0
  THEN [num |-> total_correct * 100, den |-> total_recreated]
  ELSE [num |-> 0, den |-> 1]

InitFiles ==
  /\ ConsolidatorIdle
  /\ IntegrityIdle
  /\ NameIdle
  /\ FillIdle
  /\ ValueIdle
  /\ ExtractIdle
  /\ LabelIdle
  /\ numeric_tolerance = DecInt(1)
  /\ results = <<>>
  /\ cmp_pc = "idle"
  /\ published_file \in Workbooks(PublishedSheets)
  /\ recreated_file \in Workbooks(RecreatedSheets)
  /\ sheet_names \in SheetNameLists
  /\ sheet_index = 1
  /\ published_points = <<>>
  /\ recreated_points = <<>>
  /\ sheet_results = <<>>
  /\ overall_stats = NoStats
  /\ cf_pc = AfterSheet(0)

ExtractPublished ==
  /\ cf_pc = "extract_published"
  /\ published_points' = ExtractFrom(published_file, sheet_names[sheet_index])
  /\ cf_pc' = "extract_recreated"
  /\ UNCHANGED <<published_file, recreated_file, sheet_names, sheet_index,
                 sheet_results, overall_stats>>
  /\ UNCHANGED <<valueVars, extractVars, consolidatorVars, integrityVars, nameVars, fillVars, labelVars, numeric_tolerance, recreated_points,
                 results, cmp_pc>>

ExtractRecreated ==
  /\ cf_pc = "extract_recreated"
  /\ recreated_points' = ExtractFrom(recreated_file, sheet_names[sheet_index])
  /\ cf_pc' = "compare_simple_data"
  /\ UNCHANGED <<published_file, recreated_file, sheet_names, sheet_index,
                 sheet_results, overall_stats>>
  /\ UNCHANGED <<valueVars, extractVars, consolidatorVars, integrityVars, nameVars, fillVars, labelVars, numeric_tolerance, published_points,
                 results, cmp_pc>>

\* The comparison of the sheet, its result stored and the statistics updated.
CompareSheet ==
  /\ cf_pc = "compare_simple_data"
  /\ LET comparison_results ==
           compare_simple_data(published_points, recreated_points,
                               numeric_tolerance)
     IN /\ sheet_results' = MapPut(sheet_results, sheet_names[sheet_index],
                                   comparison_results)
        /\ overall_stats' = StatsWith(overall_stats, comparison_results)
  /\ cf_pc' = AfterSheet(sheet_index)
  /\ sheet_index' = sheet_index + 1
  /\ UNCHANGED <<published_file, recreated_file, sheet_names>>
  /\ UNCHANGED <<valueVars, extractVars, consolidatorVars, integrityVars, nameVars, fillVars, labelVars, compareVars>>

\* A slip in the handler: it stands outside the loop.
AfterFailure_abort(index) == "summary"

\* The handler stands inside the loop: the next sheet follows a failure.
AfterFailure(index) == AfterSheet(index)

\* A statement of the loop body raises: the handler stores the error entry
\* of the sheet and the loop goes on.
SheetFails ==
  /\ cf_pc \in {"extract_published", "extract_recreated", "compare_simple_data"}
  /\ sheet_results' = MapPut(sheet_results, sheet_names[sheet_index], ErrorResult)
  /\ cf_pc' = AfterFailure(sheet_index)
  /\ sheet_index' = sheet_index + 1
  /\ UNCHANGED <<published_file, recreated_file, sheet_names, overall_stats>>
  /\ UNCHANGED <<valueVars, extractVars, consolidatorVars, integrityVars, nameVars, fillVars, labelVars, compareVars>>

\* The overall accuracy, after the loop.
Summarise ==
  /\ cf_pc = "summary"
  /\ overall_stats' =
       [overall_stats EXCEPT
          !.overall_accuracy =
             OverallAccuracy(overall_stats.total_correct_matches,
                             overall_stats.total_recreated_points)]
  /\ cf_pc' = "done"
  /\ UNCHANGED <<published_file, recreated_file, sheet_names, sheet_index,
                 sheet_results>>
  /\ UNCHANGED <<valueVars, extractVars, consolidatorVars, integrityVars, nameVars, fillVars, labelVars, compareVars>>

NextFiles ==
  \/ ExtractPublished
  \/ ExtractRecreated
  \/ CompareSheet
  \/ SheetFails
  \/ Summarise

SpecFiles == InitFiles /\ [][NextFiles]_vars

-----------------------------------------------------------------------------
(* SpecLabel: _values_semantically_equivalent on two dimension labels *)

LabelNumbers == {5, 16, 24, 100}

s_anos == <<" ", "a", "n", "o", "s">>

\* "de X a Y", "X - Y", "N anos ou mais", "N+", "menos de N anos", "< N"
DeXaY(de, x, y) == de \o <<" ">> \o NatToStr(x) \o <<" ", "a", " ">> \o NatToStr(y)
XDashY(x, y) == NatToStr(x) \o <<" ", "-", " ">> \o NatToStr(y)
NOuMais(n, anos) == NatToStr(n) \o <<" ">> \o anos \o <<" ", "o", "u", " ", "m", "a", "i", "s">>
NPlus(n) == NatToStr(n) \o <<"+">>
MenosDeN(menos, n) == menos \o <<" ", "d", "e", " ">> \o NatToStr(n) \o s_anos
LessThanN(n) == <<"<", " ">> \o NatToStr(n)

DeSpellings == {<<"d", "e">>, <<"D", "e">>}
AnosSpellings == {<<"a", "n", "o", "s">>, <<"a", "n", "o">>}
MenosSpellings == {<<"m", "e", "n", "o", "s">>, <<"M", "e", "n", "o", "s">>}

\* "total", "Total", "TOTAL", "(em branco)", "(Em branco)", "(EM BRANCO)",
\* "geral", "Geral" and ""
TotalSpellings ==
  {<<"t", "o", "t", "a", "l">>,
   <<"T", "o", "t", "a", "l">>,
   <<"T", "O", "T", "A", "L">>,
   <<"(", "e", "m", " ", "b", "r", "a", "n", "c", "o", ")">>,
   <<"(", "E", "m", " ", "b", "r", "a", "n", "c", "o", ")">>,
   <<"(", "E", "M", " ", "B", "R", "A", "N", "C", "O", ")">>,
   <<"g", "e", "r", "a", "l">>,
   <<"G", "e", "r", "a", "l">>,
   <<>>}

\* "n.d.", "-" and "Hotelaria"
OtherLabels == {<<"n", ".", "d", ".">>, <<"-">>, s_Hotelaria}

\* Names of countries and regions: "Portugal", "Irlanda", "Grande Lisboa",
\* "Alentejo"
OrdinaryLabels ==
  {<<"P", "o", "r", "t", "u", "g", "a", "l">>,
   <<"I", "r", "l", "a", "n", "d", "a">>,
   <<"G", "r", "a", "n", "d", "e", " ", "L", "i", "s", "b", "o", "a">>,
   <<"A", "l", "e", "n", "t", "e", "j", "o">>}

CanonicalLabels ==
  {XDashY(x, y) \o suffix : x \in LabelNumbers, y \in LabelNumbers,
                            suffix \in {<<>>, s_anos}}
    \cup {NPlus(n) : n \in LabelNumbers}
    \cup {LessThanN(n) : n \in LabelNumbers}
    \cup {s_Total}

PhrasedLabels ==
  {DeXaY(de, x, y) \o suffix : de \in DeSpellings, x \in LabelNumbers,
                               y \in LabelNumbers, suffix \in {<<>>, s_anos}}
    \cup {NOuMais(n, anos) : n \in LabelNumbers, anos \in AnosSpellings}
    \cup {MenosDeN(menos, n) : menos \in MenosSpellings, n \in LabelNumbers}
    \cup TotalSpellings \cup OtherLabels \cup OrdinaryLabels

InitLabel ==
  /\ ConsolidatorIdle
  /\ IntegrityIdle
  /\ NameIdle
  /\ FillIdle
  /\ ValueIdle
  /\ CompareIdle
  /\ ExtractIdle
  /\ FilesIdle
  /\ value1 \in {NoneVal} \cup {Str(s) : s \in PhrasedLabels \cup CanonicalLabels}
  /\ value2 \in {NoneVal} \cup {Str(s) : s \in CanonicalLabels}
  /\ norm_value1 = <<>>
  /\ norm_value2 = <<>>
  /\ vse_result = <<>>
  /\ vse_pc = "norm_value1"

NormalizeFirst ==
  /\ vse_pc = "norm_value1"
  /\ norm_value1' = <<normalize_dimension_label(value1)>>
  /\ vse_pc' = "norm_value2"
  /\ UNCHANGED <<value1, value2, norm_value2, vse_result>>
  /\ UNCHANGED notLabelVars

NormalizeSecond ==
  /\ vse_pc = "norm_value2"
  /\ norm_value2' = <<normalize_dimension_label(value2)>>
  /\ vse_pc' = "compare"
  /\ UNCHANGED <<value1, value2, norm_value1, vse_result>>
  /\ UNCHANGED notLabelVars

CompareNormalized ==
  /\ vse_pc = "compare"
  /\ vse_result' = <<NormalizedEquivalent(norm_value1[1], norm_value2[1])>>
  /\ vse_pc' = "done"
  /\ UNCHANGED <<value1, value2, norm_value1, norm_value2>>
  /\ UNCHANGED notLabelVars

NextLabel ==
  \/ NormalizeFirst
  \/ NormalizeSecond
  \/ CompareNormalized

SpecLabel == InitLabel /\ [][NextLabel]_vars

-----------------------------------------------------------------------------
(* SpecFill: has_background_color on the fill of one cell *)

\* An openpyxl Color: its type says which of rgb, theme and indexed was set.
Color(type, rgb, theme, indexed) ==
  [type |-> type, rgb |-> rgb, theme |-> theme, indexed |-> indexed]

RgbColor(rgb) == Color("rgb", rgb, 0, 0)
ThemeColor(theme) == Color("theme", "None", theme, 0)
IndexedColor(indexed) == Color("indexed", "None", 0, indexed)
AutoColor == Color("auto", "None", 0, 0)

\* cell.fill.fgColor.rgb: the string set, or what an attribute never set reads
\* as (None, or the descriptor object of the class).
ReadRgb(color, unset) == IF color.type = "rgb" THEN color.rgb ELSE unset
\* cell.fill.fgColor.theme is not None / cell.fill.fgColor.indexed is not None
ThemeIsSet(color, unset) == color.type = "theme" \/ unset # "None"
IndexedIsSet(color, unset) == color.type = "indexed" \/ unset # "None"

has_background_color(cell_fill, unset) ==
  IF cell_fill.patternType \in {"None", "none"} THEN FALSE
  ELSE IF /\ ReadRgb(cell_fill.fgColor, unset) # "None"
          /\ ReadRgb(cell_fill.fgColor, unset)
               \notin {"00000000", "FFFFFFFF", "FFFFFF", "000000"}
       THEN TRUE
  ELSE IF ThemeIsSet(cell_fill.fgColor, unset) THEN TRUE
  ELSE IF IndexedIsSet(cell_fill.fgColor, unset)
       THEN ~(cell_fill.fgColor.type = "indexed"
                /\ cell_fill.fgColor.indexed \in {64, 65})
  ELSE \* the pattern is set and no colour test has decided
       TRUE

\* No pattern, a solid fill and the pattern gray125
PatternTypes == {"None", "solid", "gray125"}

\* Black with no opacity (the default), white, red and a light grey; the
\* theme colours 0 (white), 1 and 4; the indexed colours 64 and 65
\* (automatic) and 10; the automatic colour.
FillColors ==
  {RgbColor(rgb) : rgb \in {"00000000", "FFFFFFFF", "FFFF0000", "FFD9D9D9"}}
    \cup {ThemeColor(theme) : theme \in {0, 1, 4}}
    \cup {IndexedColor(indexed) : indexed \in {64, 65, 10}}
    \cup {AutoColor}

InitFill ==
  /\ ConsolidatorIdle
  /\ IntegrityIdle
  /\ NameIdle
  /\ ValueIdle
  /\ CompareIdle
  /\ ExtractIdle
  /\ FilesIdle
  /\ LabelIdle
  /\ fill \in [patternType : PatternTypes, fgColor : FillColors]
  /\ unset_attribute \in {"None", "Descriptor"}
  /\ hbc_result = <<>>
  /\ hbc_pc = "ready"

HasBackgroundColor ==
  /\ hbc_pc = "ready"
  /\ hbc_result' = <<has_background_color(fill, unset_attribute)>>
  /\ hbc_pc' = "done"
  /\ UNCHANGED <<fill, unset_attribute>>
  /\ UNCHANGED notFillVars

NextFill == HasBackgroundColor

SpecFill == InitFill /\ [][NextFill]_vars

-----------------------------------------------------------------------------
(* SpecName: ConsolidationRules.generate_consolidated_name and              *)
(* validate_consolidated_name                                               *)

s_dim_ == <<"d", "i", "m", "_">>

\* str.rstrip('_'), str.lstrip('_'), str.strip('_')
RECURSIVE RStripUnderscore(_)
RStripUnderscore(s) ==
  IF s # <<>> /\ s[Len(s)] = "_" THEN RStripUnderscore(SubSeq(s, 1, Len(s) - 1))
  ELSE s
RECURSIVE LStripUnderscore(_)
LStripUnderscore(s) ==
  IF s # <<>> /\ Head(s) = "_" THEN LStripUnderscore(Tail(s)) ELSE s
StripUnderscore(s) == RStripUnderscore(LStripUnderscore(s))

\* The characters two strings share from their start: zip, break at the first
\* difference.
RECURSIVE CommonStart(_, _)
CommonStart(a, b) ==
  IF a # <<>> /\ b # <<>> /\ Head(a) = Head(b)
  THEN <<Head(a)>> \o CommonStart(Tail(a), Tail(b))
  ELSE <<>>

RECURSIVE PrefixOfAll(_, _)
PrefixOfAll(prefix, cols) ==
  IF cols = <<>> THEN prefix
  ELSE PrefixOfAll(CommonStart(prefix, Head(cols)), Tail(cols))

_find_longest_common_prefix(cols) ==
  IF cols = <<>> THEN <<>>
  ELSE RStripUnderscore(PrefixOfAll(Head(cols), Tail(cols)))

\* The first place k >= 1 of col with a digit at place k + 1 (0: none): where
\* the lazy group (.+?) of r'^(.+?)(\d+)' ends.
LazyGroupEnd(col) ==
  IF \E k \in 1..(Len(col) - 1) : col[k + 1] \in Digits
  THEN CHOOSE k \in 1..(Len(col) - 1) :
         /\ col[k + 1] \in Digits
         /\ \A j \in 1..(k - 1) : col[j + 1] \notin Digits
  ELSE 0

\* The place k >= 1 of col after which only digits follow, at least one, and
\* that is the first such place (0: none): the group (.+?) of r'^(.+?)(\d+)$'.
LazyGroupBeforeDigits(col) ==
  IF \E k \in 1..(Len(col) - 1) : \A j \in (k + 1)..Len(col) : col[j] \in Digits
  THEN CHOOSE k \in 1..(Len(col) - 1) :
         /\ \A j \in (k + 1)..Len(col) : col[j] \in Digits
         /\ \A i \in 1..(k - 1) : \E j \in (i + 1)..Len(col) : col[j] \notin Digits
  ELSE 0

\* str.split('_')[:-1] joined by '_': the string before its last underscore
BeforeLastUnderscore(col) == SubSeq(col, 1, RFind(col, "_") - 1)

\* The pattern _extract_base_pattern takes from one column.
BasePatternOf(col) ==
  IF LazyGroupBeforeDigits(col) > 0
  THEN RStripUnderscore(SubSeq(col, 1, LazyGroupBeforeDigits(col)))
  ELSE IF LazyGroupEnd(col) > 0
       THEN LET first == LazyGroupEnd(col)
                after == SkipClass(col, first + 1, Digits)
                prefix == RStripUnderscore(SubSeq(col, 1, first))
                suffix == LStripUnderscore(SubSeq(col, after, Len(col)))
            IN IF suffix # <<>> THEN prefix \o <<"_">> \o suffix ELSE prefix
  ELSE IF Count(col, "_") + 1 > 2 THEN BeforeLastUnderscore(col)
  ELSE col

\* The number of places of a list that hold x.
Occurrences(list, x) == Cardinality({i \in DOMAIN list : list[i] = x})

\* The first item of a list among those that occur most often in it.
FirstMostCommon(list) ==
  list[CHOOSE i \in DOMAIN list :
         /\ \A j \in DOMAIN list : Occurrences(list, list[j]) <= Occurrences(list, list[i])
         /\ \A j \in 1..(i - 1) : Occurrences(list, list[j]) < Occurrences(list, list[i])]

_extract_base_pattern(cols) ==
  IF cols = <<>> THEN <<>>
  ELSE FirstMostCommon([i \in DOMAIN cols |-> BasePatternOf(cols[i])])

\* \w: letters, digits and the underscore
IsWordChar(c) ==
  \/ c \in Digits \cup {"_"}
  \/ c \in {"e_ac", "a_til", "o_til", "o_ac", "i_ac", "o_ord"}
  \/ \E i \in DOMAIN LowerChars : c = LowerChars[i] \/ c = UpperChars[i]

\* re.findall(r'\w+', s)
RECURSIVE FindWords(_)
FindWords(s) ==
  IF s = <<>> THEN <<>>
  ELSE IF IsWordChar(Head(s))
       THEN LET k == CHOOSE k \in 1..Len(s) :
                  /\ \A j \in 1..k : IsWordChar(s[j])
                  /\ k < Len(s) => ~IsWordChar(s[k + 1])
            IN <<SubSeq(s, 1, k)>> \o FindWords(SubSeq(s, k + 1, Len(s)))
       ELSE FindWords(Tail(s))

\* w.isdigit()
IsDigitWord(w) == w # <<>> /\ \A i \in DOMAIN w : w[i] \in Digits

RECURSIVE Flatten(_)
Flatten(lists) == IF lists = <<>> THEN <<>> ELSE Head(lists) \o Flatten(Tail(lists))

\* The distinct items of a list in the order of their first occurrence: the
\* keys of the dict of counts.
RECURSIVE Distinct(_)
Distinct(list) ==
  IF list = <<>> THEN <<>>
  ELSE LET before == Distinct(SubSeq(list, 1, Len(list) - 1))
       IN IF \E i \in DOMAIN before : before[i] = list[Len(list)] THEN before
          ELSE Append(before, list[Len(list)])

\* sorted(items, key=count, reverse=True): a stable sort, the most frequent
\* first, by insertion.
RECURSIVE SortedByCount(_, _)
SortedByCount(keys, all) ==
  IF keys = <<>> THEN <<>>
  ELSE LET rest == SortedByCount(SubSeq(keys, 1, Len(keys) - 1), all)
           key == keys[Len(keys)]
           ahead == SelectSeq(rest, LAMBDA k : Occurrences(all, k) >= Occurrences(all, key))
           behind == SelectSeq(rest, LAMBDA k : Occurrences(all, k) < Occurrences(all, key))
       IN ahead \o <<key>> \o behind

RECURSIVE JoinUnderscore(_)
JoinUnderscore(words) ==
  IF words = <<>> THEN <<>>
  ELSE IF Len(words) = 1 THEN words[1]
  ELSE words[1] \o <<"_">> \o JoinUnderscore(Tail(words))

_generate_fallback_name(cols) ==
  LET all_words ==
        Flatten([i \in DOMAIN cols |->
                   SelectSeq(FindWords(Lower(cols[i])),
                             LAMBDA w : w # <<"d", "i", "m">> /\ ~IsDigitWord(w))])
      common_words == SortedByCount(Distinct(all_words), all_words)
      keywords == SubSeq(common_words, 1, IF Len(common_words) < 3
                                          THEN Len(common_words) ELSE 3)
  IN IF keywords # <<>> THEN s_dim_ \o JoinUnderscore(keywords)
     ELSE <<"d", "i", "m", "_", "c", "o", "n", "s", "o", "l", "i", "d", "a", "d", "a", "_">> \o NatToStr(Len(cols))
            \o <<"_", "c", "o", "l", "u", "n", "a", "s">>

\* unicodedata.normalize('NFKD', c) without its combining marks
Unaccented(c) ==
  CASE c \in {"e_ac"} -> "e"
    [] c \in {"a_til"} -> "a"
    [] c \in {"o_til", "o_ac", "o_ord"} -> "o"
    [] c \in {"i_ac"} -> "i"
    [] OTHER -> c

IsNameChar(c) ==
  c \in Digits \cup {"_"} \/ \E i \in DOMAIN LowerChars : c = LowerChars[i]

\* re.sub(r'_+', '_', s)
RECURSIVE CollapseUnderscores(_)
CollapseUnderscores(s) ==
  IF s = <<>> THEN <<>>
  ELSE IF Head(s) = "_"
       THEN <<"_">> \o CollapseUnderscores(SubSeq(s, SkipClass(s, 1, {"_"}), Len(s)))
       ELSE <<Head(s)>> \o CollapseUnderscores(Tail(s))

\* The longest name _clean_column_name leaves as it is.
MaxNameLen == 50

\* if len(name) > 50: name = name[:47] + '...'
Truncated(name) ==
  IF Len(name) > MaxNameLen
  THEN SubSeq(name, 1, MaxNameLen - 3) \o <<".", ".", ".">>
  ELSE name

_clean_column_name(name) ==
  LET lowered == Lower([i \in DOMAIN name |-> Unaccented(name[i])])
      replaced == [i \in DOMAIN lowered |->
                     IF IsNameChar(lowered[i]) THEN lowered[i] ELSE "_"]
      stripped == StripUnderscore(CollapseUnderscores(replaced))
      prefixed == IF StartsWith(stripped, s_dim_) THEN stripped
                  ELSE s_dim_ \o stripped
      single == IF StartsWith(prefixed, s_dim_ \o s_dim_)
                THEN SubSeq(prefixed, 5, Len(prefixed)) ELSE prefixed
  IN Truncated(single)

generate_consolidated_name(cols) ==
  IF cols = <<>> THEN <<"d", "i", "m", "_", "c", "o", "n", "s", "o", "l", "i", "d", "a", "d", "a">>
  ELSE IF Len(cols) = 1 THEN _clean_column_name(cols[1])
  ELSE IF Len(_find_longest_common_prefix(cols)) > 6
       THEN _clean_column_name(_find_longest_common_prefix(cols))
  ELSE IF _extract_base_pattern(cols) # <<>>
       THEN _clean_column_name(_extract_base_pattern(cols))
  ELSE _clean_column_name(_generate_fallback_name(cols))

\* The first item of the tuple validate_consolidated_name returns.
validate_consolidated_name(name) ==
  /\ StartsWith(name, s_dim_)
  /\ name # <<>> /\ \A i \in DOMAIN name : IsNameChar(name[i])
  /\ ~(Len(name) < 5)
  /\ ~(Len(name) > 50)
  /\ ~(name # <<>> /\ name[Len(name)] = "_")
  /\ ~Contains(name, <<"_", "_">>)

\* Most columns in a group.
MaxColumns == 2

\* "dim_grupo_etario1", "dim_grupo_etario2", "dim_sexo", "dim_regiao1_nuts",
\* "dim_Região", "dim_a", "_1", "_2", the empty name, and a name of 51
\* characters, "dim_" and 47 times "a"
ColumnNames ==
  {<<"d", "i", "m", "_", "g", "r", "u", "p", "o", "_", "e", "t", "a", "r", "i", "o", "1">>,
   <<"d", "i", "m", "_", "g", "r", "u", "p", "o", "_", "e", "t", "a", "r", "i", "o", "2">>,
   <<"d", "i", "m", "_", "s", "e", "x", "o">>,
   <<"d", "i", "m", "_", "r", "e", "g", "i", "a", "o", "1", "_", "n", "u", "t", "s">>,
   <<"d", "i", "m", "_", "R", "e", "g", "i", "a_til", "o">>,
   <<"d", "i", "m", "_", "a">>, <<"_", "1">>, <<"_", "2">>, <<>>,
   s_dim_ \o [i \in 1..(MaxNameLen - 3) |-> "a"]}

InitName ==
  /\ ConsolidatorIdle
  /\ IntegrityIdle
  /\ ValueIdle
  /\ CompareIdle
  /\ ExtractIdle
  /\ FilesIdle
  /\ LabelIdle
  /\ FillIdle
  /\ columns \in UNION {[1..len -> ColumnNames] : len \in 1..MaxColumns}
  /\ consolidated_name = <<>>
  /\ name_valid = <<>>
  /\ name_pc = "generate_consolidated_name"

GenerateConsolidatedName ==
  /\ name_pc = "generate_consolidated_name"
  /\ consolidated_name' = <<generate_consolidated_name(columns)>>
  /\ name_pc' = "validate_consolidated_name"
  /\ UNCHANGED <<columns, name_valid>>
  /\ UNCHANGED notNameVars

ValidateConsolidatedName ==
  /\ name_pc = "validate_consolidated_name"
  /\ name_valid' = <<validate_consolidated_name(consolidated_name[1])>>
  /\ name_pc' = "done"
  /\ UNCHANGED <<columns, consolidated_name>>
  /\ UNCHANGED notNameVars

NextName ==
  \/ GenerateConsolidatedName
  \/ ValidateConsolidatedName

SpecName == InitName /\ [][NextName]_vars

-----------------------------------------------------------------------------
(* SpecIntegrity: utils.validate_dataframe_integrity                        *)

\* A frame is the list of its columns, [name, dtype, values]; the values of
\* a column are Python values, NoneVal standing for NaN and None.  The
\* columns of a frame have one length and distinct names.
Bool(b) == [t |-> "bool", n |-> DecInt(IF b THEN 1 ELSE 0), s |-> <<>>]

Column(name, dtype, values) == [name |-> name, dtype |-> dtype, values |-> values]

\* df.shape
Shape(df) == <<IF df = <<>> THEN 0 ELSE Len(df[1].values), Len(df)>>

\* list(df.columns)
ColumnList(df) == [i \in DOMAIN df |-> df[i].name]

\* col in df.columns, df[col]
HasColumn(df, name) == \E i \in DOMAIN df : df[i].name = name
ColumnOf(df, name) == df[CHOOSE i \in DOMAIN df : df[i].name = name]

\* dtype.kind
DtypeKind(dtype) ==
  CASE dtype = "float64" -> "f"
    [] dtype = "int64" -> "i"
    [] dtype = "bool" -> "b"
    [] OTHER -> "O"

\* select_dtypes(include='number'), select_dtypes(include='object')
IsNumberColumn(col) == col.dtype \in {"int64", "float64"}
IsObjectColumn(col) == col.dtype = "object"

\* pd.isna
IsNa(v) == v = NoneVal

\* Series.dropna().values
DropNa(values) == SelectSeq(values, LAMBDA v : ~IsNa(v))

\* df.isnull().sum().sum()
RECURSIVE NullCount(_)
NullCount(df) ==
  IF df = <<>> THEN 0
  ELSE Len(SelectSeq(Head(df).values, IsNa)) + NullCount(Tail(df))

\* The loop over the dtypes from column i on: "match", "mismatch" (the loop
\* breaks) or "KeyError" (converted_df[col] of a column the converted frame
\* does not have).
RECURSIVE DtypesFrom(_, _, _, _)
DtypesFrom(orig, conv, json, i) ==
  IF i > Len(orig) THEN "match"
  ELSE LET kind == DtypeKind(orig[i].dtype)
           reads == IF json THEN kind \in {"f", "i"} ELSE TRUE
       IN IF ~reads THEN DtypesFrom(orig, conv, json, i + 1)
          ELSE IF ~HasColumn(conv, orig[i].name) THEN "KeyError"
          ELSE LET other == ColumnOf(conv, orig[i].name).dtype
                   same ==
                     IF json
                     THEN IF kind = "f" THEN DtypeKind(other) = "f"
                          ELSE DtypeKind(other) \in {"i", "u"}
                     ELSE orig[i].dtype = other
               IN IF same THEN DtypesFrom(orig, conv, json, i + 1) ELSE "mismatch"

\* max(1, int(null_count_orig * 0.05))
NullTolerance(null_count) == Max2(1, (null_count * 5) \div 100)

NullValuesMatch(orig, conv, json) ==
  IF json
  THEN NullCount(orig) - NullCount(conv) <= NullTolerance(NullCount(orig))
       /\ NullCount(conv) - NullCount(orig) <= NullTolerance(NullCount(orig))
  ELSE NullCount(orig) = NullCount(conv)

\* np.max(np.abs(a - b)) <= 1e-10 for two arrays numpy can subtract: of one
\* length, or one of them of length 1 (broadcast).  The numbers of a frame
\* have at most two decimals, so that a difference is at most 1e-10 exactly
\* when it is 0.
WithinPrecision(a, b) ==
  \A i \in 1..Max2(Len(a), Len(b)) :
    DecLE(DecAbs(DecSub(a[IF Len(a) = 1 THEN 1 ELSE i].n,
                        b[IF Len(b) = 1 THEN 1 ELSE i].n)), DecInt(0))

\* The JSON check of one numeric column; an exception of the subtraction
\* (strings, lengths that do not broadcast) counts as a difference.
JsonColumnMatches(ocol, ccol) ==
  LET orig_values == DropNa(ocol.values)
      conv_values == DropNa(ccol.values)
      cut == SubSeq(conv_values, 1, Min2(Len(orig_values), Len(conv_values)))
  IN IF orig_values = <<>> \/ conv_values = <<>> THEN TRUE
     ELSE /\ \A i \in DOMAIN cut : cut[i].t # "str"
          /\ Len(cut) = Len(orig_values) \/ Len(cut) = 1 \/ Len(orig_values) = 1
          /\ WithinPrecision(orig_values, cut)

\* Series.equals: the same dtype, length and values, NaN equal to NaN
SeriesEquals(ocol, ccol) == ocol.dtype = ccol.dtype /\ ocol.values = ccol.values

\* The check of the numeric columns of the original frame.
NumericDataMatch(orig, conv, json) ==
  \A i \in DOMAIN orig :
    IsNumberColumn(orig[i]) /\ HasColumn(conv, orig[i].name) =>
      IF json THEN JsonColumnMatches(orig[i], ColumnOf(conv, orig[i].name))
      ELSE SeriesEquals(orig[i], ColumnOf(conv, orig[i].name))

\* The check of the object columns: the values are compared in pairs (zip).
ObjectColumnMatches(ocol, ccol) ==
  \A r \in 1..Min2(Len(ocol.values), Len(ccol.values)) :
    ~(~(IsNa(ocol.values[r]) /\ IsNa(ccol.values[r]))
      /\ ocol.values[r] # ccol.values[r])

ObjectDataMatch(orig, conv) ==
  \A i \in DOMAIN orig :
    IsObjectColumn(orig[i]) /\ HasColumn(conv, orig[i].name) =>
      ObjectColumnMatches(orig[i], ColumnOf(conv, orig[i].name))

\* The outcome of validate_dataframe_integrity: the exception it raises, or
\* is_valid and the flags of validation_results (the two hashes of
\* validation_results are reported and take no part in is_valid).
validate_dataframe_integrity(orig, conv, json) ==
  LET shape_match == Shape(orig) = Shape(conv)
      columns_match == ColumnList(orig) = ColumnList(conv)
      dtypes == DtypesFrom(orig, conv, json, 1)
      dtypes_match == dtypes = "match"
      null_values_match == NullValuesMatch(orig, conv, json)
      data_match == NumericDataMatch(orig, conv, json) /\ ObjectDataMatch(orig, conv)
  IN IF dtypes = "KeyError"
     THEN [raised |-> "KeyError", is_valid |-> FALSE, shape_match |-> shape_match,
           columns_match |-> columns_match, dtypes_match |-> TRUE,
           data_match |-> TRUE, null_values_match |-> TRUE]
     ELSE [raised |-> "",
           is_valid |->
             IF json /\ shape_match /\ columns_match /\ dtypes_match THEN TRUE
             ELSE /\ shape_match
                  /\ columns_match
                  /\ dtypes_match
                  /\ data_match
                  /\ null_values_match,
           shape_match |-> shape_match, columns_match |-> columns_match,
           dtypes_match |-> dtypes_match, data_match |-> data_match,
           null_values_match |-> null_values_match]

\* Most rows of a frame.
MaxRows == 2

s_valor == <<"v", "a", "l", "o", "r">>
s_flag == <<"f", "l", "a", "g">>

\* The values a column of a dtype can hold.
DtypeValues(dtype) ==
  CASE dtype = "int64" -> {Num(DecInt(1)), Num(DecInt(2))}
    [] dtype = "float64" -> {Num(Dec(15, 1)), Num(Dec(99999, 2)), NoneVal}
    [] dtype = "bool" -> {Bool(TRUE), Bool(FALSE)}
    [] OTHER -> {Str(<<"a">>), Str(<<"b">>), NoneVal}

Dtypes == {"int64", "float64", "bool", "object"}

\* Frames of one column, and frames of two rows with a column 'valor' of
\* floats and a column 'flag' of booleans.
Frames ==
  UNION {{<<Column(name, dtype, values)>> :
            name \in {s_valor, s_flag},
            values \in UNION {[1..rows -> DtypeValues(dtype)] : rows \in 1..MaxRows}} :
         dtype \in Dtypes}
  \cup
  {<<Column(s_valor, "float64", <<Num(Dec(15, 1)), v>>),
     Column(s_flag, "bool", <<Bool(TRUE), b>>)>> :
     v \in DtypeValues("float64"), b \in DtypeValues("bool")}

InitIntegrity ==
  /\ ConsolidatorIdle
  /\ ValueIdle
  /\ CompareIdle
  /\ ExtractIdle
  /\ FilesIdle
  /\ LabelIdle
  /\ FillIdle
  /\ NameIdle
  /\ original_df \in Frames
  /\ converted_df \in Frames
  /\ is_json \in BOOLEAN
  /\ integrity = <<>>
  /\ integ_pc = "validate_dataframe_integrity"

ValidateDataframeIntegrity ==
  /\ integ_pc = "validate_dataframe_integrity"
  /\ integrity' = <<validate_dataframe_integrity(original_df, converted_df, is_json)>>
  /\ integ_pc' = "done"
  /\ UNCHANGED <<original_df, converted_df, is_json>>
  /\ UNCHANGED notIntegrityVars

NextIntegrity == ValidateDataframeIntegrity

SpecIntegrity == InitIntegrity /\ [][NextIntegrity]_vars

-----------------------------------------------------------------------------
(* SpecConsolidate: DimensionConsolidator.consolidate                       *)

\* A frame is [columns, data]: the names of its columns and its rows, a row
\* holding one cell for each column.  A cell is a string; Empty stands for a
\* cell without a value (None, NaN).
Empty == ""

\* pd.notna(val) and str(val).strip()
IsValue(v) == v # Empty

\* col.startswith('dim_')
IsDimension(name) == StartsWith(name, s_dim_)

HasCol(df, name) == \E i \in DOMAIN df.columns : df.columns[i] = name
ColIndex(df, name) == CHOOSE i \in DOMAIN df.columns : df.columns[i] = name
ValueAt(df, r, name) == df.data[r][ColIndex(df, name)]

\* df.at[r, name] = v
SetAt(df, r, name, v) == [df EXCEPT !.data[r][ColIndex(df, name)] = v]

\* df[name] = None: a new last column, or the column of that name emptied
AssignNone(df, name) ==
  IF HasCol(df, name)
  THEN [df EXCEPT !.data =
          [r \in DOMAIN df.data |-> [df.data[r] EXCEPT ![ColIndex(df, name)] = Empty]]]
  ELSE [columns |-> Append(df.columns, name),
        data |-> [r \in DOMAIN df.data |-> Append(df.data[r], Empty)]]

RECURSIVE KeptFrom(_, _, _)
KeptFrom(names, dropped, i) ==
  IF i > Len(names) THEN <<>>
  ELSE (IF names[i] \in dropped THEN <<>> ELSE <<i>>) \o KeptFrom(names, dropped, i + 1)

\* df.drop(columns=...)
DropColumns(df, dropped) ==
  LET kept == KeptFrom(df.columns, dropped, 1)
  IN [columns |-> [k \in DOMAIN kept |-> df.columns[kept[k]]],
      data |-> [r \in DOMAIN df.data |-> [k \in DOMAIN kept |-> df.data[r][kept[k]]]]]

\* The set of the values of a column.
ColumnValues(df, name) == {ValueAt(df, r, name) : r \in DOMAIN df.data} \ {Empty}

\* The values of the columns of a list that the frame has.
CollectValues(df, cols) ==
  UNION {ColumnValues(df, cols[i]) : i \in {j \in DOMAIN cols : HasCol(df, cols[j])}}

DimensionColumns(df) == SelectSeq(df.columns, IsDimension)

MinOf(S) == CHOOSE x \in S : \A y \in S : x <= y

\* The orders in which a set can be iterated.
Orders(S) ==
  {order \in [1..Cardinality(S) -> S] :
     \A i, j \in 1..Cardinality(S) : i # j => order[i] # order[j]}

\* The number at the end of a column name without its 'dim_', and the base
\* before it: r'^(.+?)(\d+)$' of _is_obvious_related_pattern.
CleanName(col) == IF StartsWith(col, s_dim_) THEN SubSeq(col, 5, Len(col)) ELSE col
NumberedBase(col) ==
  RStripUnderscore(SubSeq(CleanName(col), 1, LazyGroupBeforeDigits(CleanName(col))))
NumberOf(col) ==
  DigitsToInt(SubSeq(CleanName(col), LazyGroupBeforeDigits(CleanName(col)) + 1,
                     Len(CleanName(col))))

_is_obvious_related_pattern(cols) ==
  /\ Len(cols) >= 2
  /\ \A i \in DOMAIN cols : LazyGroupBeforeDigits(CleanName(cols[i])) > 0
  /\ \A i \in DOMAIN cols : NumberedBase(cols[i]) = NumberedBase(cols[1])
  /\ NumberedBase(cols[1]) # <<>>
  /\ \A i, j \in DOMAIN cols : i # j => NumberOf(cols[i]) # NumberOf(cols[j])

\* The first value of a row in the columns of a list, Empty without one.
FirstLineValue(df, r, cols) ==
  LET holding == SelectSeq(cols, LAMBDA c : HasCol(df, c) /\ IsValue(ValueAt(df, r, c)))
  IN IF holding = <<>> THEN Empty ELSE ValueAt(df, r, holding[1])

\* _check_value_preservation_feasibility: 'safe'
_check_value_preservation_feasibility(df, cols) ==
  CollectValues(df, cols) \subseteq
    ({FirstLineValue(df, r, cols) : r \in DOMAIN df.data} \ {Empty})

\* The sum of min(3, size of the overlap) over the pairs of columns.
RECURSIVE OverlapFrom(_, _, _, _)
OverlapFrom(df, cols, i, j) ==
  IF i > Len(cols) THEN 0
  ELSE IF j > Len(cols) THEN OverlapFrom(df, cols, i + 1, i + 2)
  ELSE Min2(3, Cardinality(ColumnValues(df, cols[i]) \cap ColumnValues(df, cols[j])))
       + OverlapFrom(df, cols, i, j + 1)

\* _check_value_compatibility_basic: 'compatible'
_check_value_compatibility_basic(df, cols) ==
  ~(OverlapFrom(df, cols, 1, 2) * 100 > 15 * Cardinality(CollectValues(df, cols)))

\* The candidates of DimensionAnalyzer: the dimension columns of the frame,
\* which the keywords of one group name.
get_consolidation_candidates(df) ==
  IF Len(DimensionColumns(df)) > 1 THEN <<DimensionColumns(df)>> ELSE <<>>

_apply_conservative_value_filters(df, groups) ==
  SelectSeq(groups,
            LAMBDA cols :
              /\ ~(Len(cols) < 2)
              /\ \/ _is_obvious_related_pattern(cols)
                 \/ /\ _check_value_preservation_feasibility(df, cols)
                    /\ _check_value_compatibility_basic(df, cols))

\* The name for the consolidated column that no column has yet.
RECURSIVE FreeName(_, _, _)
FreeName(df, original_name, counter) ==
  IF HasCol(df, original_name \o <<"_">> \o NatToStr(counter))
  THEN FreeName(df, original_name, counter + 1)
  ELSE original_name \o <<"_">> \o NatToStr(counter)

\* Pass 1: every row with a value takes its first value.
FillFirstValues(df, cols, target) ==
  [df EXCEPT !.data =
     [r \in DOMAIN df.data |->
        IF IsValue(FirstLineValue(df, r, cols))
        THEN [df.data[r] EXCEPT ![ColIndex(df, target)] = FirstLineValue(df, r, cols)]
        ELSE df.data[r]]]

MatchingRows(df, col, v) == {r \in DOMAIN df.data : ValueAt(df, r, col) = v}
EmptyRows(df, target) == MatchingRows(df, target, Empty)

\* A value that fills more than one row of the column, value_counts() first.
DuplicatedValues(df, target) ==
  {v \in ColumnValues(df, target) : Cardinality(MatchingRows(df, target, v)) > 1}
MostFrequent(df, target) ==
  CHOOSE v \in DuplicatedValues(df, target) :
    \A w \in DuplicatedValues(df, target) :
      Cardinality(MatchingRows(df, target, w)) <= Cardinality(MatchingRows(df, target, v))

\* Pass 2 for one missing value: the first row that holds it in the first
\* source column that has it takes it; without such a column the first empty
\* row takes it, and in the real run, without an empty row, the first row of
\* a duplicated value.
ForceValue(df, source_cols, target, v, real) ==
  LET holding == SelectSeq(source_cols,
                           LAMBDA c : HasCol(df, c) /\ MatchingRows(df, c, v) # {})
  IN IF holding # <<>>
     THEN SetAt(df, MinOf(MatchingRows(df, holding[1], v)), target, v)
     ELSE IF EmptyRows(df, target) # {}
          THEN SetAt(df, MinOf(EmptyRows(df, target)), target, v)
     ELSE IF real /\ DuplicatedValues(df, target) # {}
          THEN SetAt(df, MinOf(MatchingRows(df, target, MostFrequent(df, target))),
                     target, v)
     ELSE df

RECURSIVE ForceAll(_, _, _, _, _)
ForceAll(df, source_cols, target, order, real) ==
  IF order = <<>> THEN df
  ELSE ForceAll(ForceValue(df, source_cols, target, order[1], real),
                source_cols, target, Tail(order), real)

\* The last attempt of the real run for one value still missing: the first
\* empty row takes it, or a new row that copies the cells of the first row
\* in the columns that are not dimensions.
RestoreValue(df, target, v) ==
  IF EmptyRows(df, target) # {}
  THEN SetAt(df, MinOf(EmptyRows(df, target)), target, v)
  ELSE [df EXCEPT !.data =
          Append(df.data,
                 [k \in DOMAIN df.columns |->
                    IF df.columns[k] = target THEN v
                    ELSE IF ~IsDimension(df.columns[k]) THEN df.data[1][k]
                    ELSE Empty])]

RECURSIVE RestoreAll(_, _, _)
RestoreAll(df, target, order) ==
  IF order = <<>> THEN df
  ELSE RestoreAll(RestoreValue(df, target, order[1]), target, Tail(order))

\* The frame once the source columns are removed, or the frame as it stands
\* when values are still missing (the method returns False).
Finished(df, existing, target, all_values) ==
  IF all_values \subseteq ColumnValues(df, target)
  THEN DropColumns(df, {existing[i] : i \in DOMAIN existing})
  ELSE df

\* The frames _execute_consolidation_with_preservation can leave, one for
\* each order in which the sets of missing values are iterated.
_execute_consolidation_with_preservation(df, source_columns, target_column) ==
  LET existing == SelectSeq(source_columns, LAMBDA c : HasCol(df, c))
      all_values == CollectValues(df, existing)
      target == IF HasCol(df, target_column) THEN FreeName(df, target_column, 1)
                ELSE target_column
      first == FillFirstValues(AssignNone(df, target), existing, target)
      missing == all_values \ ColumnValues(first, target)
  IN IF existing = <<>> THEN {df}
     ELSE UNION
       {LET forced == ForceAll(first, existing, target, order, TRUE)
            final_missing == all_values \ ColumnValues(forced, target)
        IN {Finished(RestoreAll(forced, target, last), existing, target, all_values) :
              last \in Orders(final_missing)} :
        order \in Orders(missing)}

\* The frames the simulation of one group can leave.
SimulatedGroup(df, available, name) ==
  LET all_values == CollectValues(df, available)
      first == FillFirstValues(AssignNone(df, name), available, name)
      missing == all_values \ ColumnValues(first, name)
  IN {DropColumns(ForceAll(first, available, name, order, FALSE),
                  {available[i] : i \in DOMAIN available}) :
        order \in Orders(missing)}

\* The frames the groups of a list leave, one group after the other.
RECURSIVE ConsolidatedFrames(_, _, _)
ConsolidatedFrames(frames, groups, simulation) ==
  IF groups = <<>> THEN frames
  ELSE ConsolidatedFrames(
         UNION {LET available == SelectSeq(Head(groups), LAMBDA c : HasCol(df, c))
                IN IF Len(available) < 2 THEN {df}
                   ELSE IF simulation
                        THEN SimulatedGroup(df, available,
                                            generate_consolidated_name(available))
                   ELSE _execute_consolidation_with_preservation(
                          df, available, generate_consolidated_name(available)) :
                df \in frames},
         Tail(groups), simulation)

\* _validate_absolute_value_preservation: total_validation
ValuesPreserved(orig, cons) ==
  \A i \in DOMAIN orig.columns :
    IsDimension(orig.columns[i]) =>
      ColumnValues(orig, orig.columns[i]) \subseteq CollectValues(cons, DimensionColumns(cons))

\* Series.equals of a column of the two frames
SameColumn(orig, cons, name) ==
  /\ Len(orig.data) = Len(cons.data)
  /\ \A r \in DOMAIN orig.data : ValueAt(orig, r, name) = ValueAt(cons, r, name)

\* _validate_valor_column
ValorIntact(orig, cons) ==
  HasCol(orig, s_valor) => HasCol(cons, s_valor) /\ SameColumn(orig, cons, s_valor)

\* _validate_non_dimension_columns
NonDimensionIntact(orig, cons) ==
  \A i \in DOMAIN orig.columns :
    ~IsDimension(orig.columns[i]) =>
      HasCol(cons, orig.columns[i]) /\ SameColumn(orig, cons, orig.columns[i])

\* Most rows of a loaded frame.
MaxFrameRows == 2

s_indicador == <<"i", "n", "d", "i", "c", "a", "d", "o", "r">>
dim_grupo_etario1 == <<"d", "i", "m", "_", "g", "r", "u", "p", "o", "_", "e", "t", "a", "r", "i", "o", "1">>
dim_grupo_etario2 == <<"d", "i", "m", "_", "g", "r", "u", "p", "o", "_", "e", "t", "a", "r", "i", "o", "2">>
dim_regiao == <<"d", "i", "m", "_", "r", "e", "g", "i", "a", "o">>
dim_nuts == <<"d", "i", "m", "_", "n", "u", "t", "s">>

DimensionValues == {"Norte", "Centro", "Sul"}
ValorOfRow == <<"10", "20", "30">>

\* The frames _load_data leaves: the columns 'indicador' and 'valor' and two
\* dimension columns, none of them empty.
LoadedFrames ==
  {df \in
     {[columns |-> <<s_indicador, s_valor>> \o dims,
       data |-> [r \in DOMAIN cells |->
                   <<"pop", ValorOfRow[r], cells[r][1], cells[r][2]>>]] :
        dims \in {<<dim_grupo_etario1, dim_grupo_etario2>>, <<dim_regiao, dim_nuts>>},
        cells \in UNION {[1..n -> [1..2 -> DimensionValues \cup {Empty}]] :
                           n \in 1..MaxFrameRows}} :
     \A i \in 3..4 : ColumnValues(df, df.columns[i]) # {}}

InitConsolidate ==
  /\ ValueIdle
  /\ CompareIdle
  /\ ExtractIdle
  /\ FilesIdle
  /\ LabelIdle
  /\ FillIdle
  /\ NameIdle
  /\ IntegrityIdle
  /\ loaded_df \in LoadedFrames
  /\ dry_run \in BOOLEAN
  /\ candidates = <<>>
  /\ consolidated_df = [columns |-> <<>>, data |-> <<>>]
  /\ report = <<>>
  /\ cons_pc = "_analyze_dimensions"

AnalyzeDimensions ==
  /\ cons_pc = "_analyze_dimensions"
  /\ candidates' = _apply_conservative_value_filters(
                     loaded_df, get_consolidation_candidates(loaded_df))
  /\ cons_pc' = IF dry_run THEN "_simulate_consolidation"
                ELSE "_apply_consolidation_with_preservation"
  /\ UNCHANGED <<loaded_df, dry_run, consolidated_df, report>>
  /\ UNCHANGED notConsolidatorVars

SimulateConsolidation ==
  /\ cons_pc = "_simulate_consolidation"
  /\ consolidated_df' \in ConsolidatedFrames({loaded_df}, candidates, TRUE)
  /\ cons_pc' = "_validate_absolute_value_preservation"
  /\ UNCHANGED <<loaded_df, dry_run, candidates, report>>
  /\ UNCHANGED notConsolidatorVars

ApplyConsolidationWithPreservation ==
  /\ cons_pc = "_apply_consolidation_with_preservation"
  /\ consolidated_df' \in ConsolidatedFrames({loaded_df}, candidates, FALSE)
  /\ cons_pc' = "_validate_absolute_value_preservation"
  /\ UNCHANGED <<loaded_df, dry_run, candidates, report>>
  /\ UNCHANGED notConsolidatorVars

ValidateAbsoluteValuePreservation ==
  /\ cons_pc = "_validate_absolute_value_preservation"
  /\ report' = <<[check |-> "absolute_value_preservation",
                  passed |-> ValuesPreserved(loaded_df, consolidated_df)]>>
  /\ cons_pc' = "_validate_integrity"
  /\ UNCHANGED <<loaded_df, dry_run, candidates, consolidated_df>>
  /\ UNCHANGED notConsolidatorVars

ValidateIntegrity ==
  /\ cons_pc = "_validate_integrity"
  /\ report' = report \o
       <<[check |-> "row_count",
          passed |-> Len(loaded_df.data) = Len(consolidated_df.data)],
         [check |-> "valor_column", passed |-> ValorIntact(loaded_df, consolidated_df)],
         [check |-> "non_dimension_columns",
          passed |-> NonDimensionIntact(loaded_df, consolidated_df)]>>
  /\ cons_pc' = "done"
  /\ UNCHANGED <<loaded_df, dry_run, candidates, consolidated_df>>
  /\ UNCHANGED notConsolidatorVars

NextConsolidate ==
  \/ AnalyzeDimensions
  \/ SimulateConsolidation
  \/ ApplyConsolidationWithPreservation
  \/ ValidateAbsoluteValuePreservation
  \/ ValidateIntegrity

SpecConsolidate == InitConsolidate /\ [][NextConsolidate]_vars

-----------------------------------------------------------------------------
(* Properties of the value tests (SpecValue) *)

IsYearNumber(v) == v.t = "num" /\ IsIntValued(v.n) /\ InYearRange(v.n)

\* C5: normalize_value returns not-a-value for every input that parses to an
\* integer-valued number in [1900, 2030]: what it returns is never such a
\* number.
C5_YearIsNotAValue ==
  nv_result # <<>> => ~IsYearNumber(nv_result[1])

\* C6: the region detector's test, is_data_cell and get_displayed_value give
\* the same verdict on whether the cell is a data value.
C6_SameVerdictEverywhere ==
  val_pc = "done" =>
    /\ det_result[1] = dc_result[1]
    /\ dc_result[1] = (dv_result[1].t = "num")

\* A numeric string, once its whitespace is removed: digits and separators
\* only, at least one digit, and, when both separators occur, the later one
\* occurs once.
NumericString(t) ==
  /\ \A i \in DOMAIN t : t[i] \in Digits \cup {",", "."}
  /\ \E i \in DOMAIN t : t[i] \in Digits
  /\ Count(t, ",") > 0 /\ Count(t, ".") > 0 =>
       Count(t, IF RFind(t, ",") > RFind(t, ".") THEN "," ELSE ".") = 1

\* The number of digits of t after place k.
DigitsAfter(t, k) == Cardinality({i \in (k + 1)..Len(t) : t[i] \in Digits})

\* The place of the decimal separator of a numeric string (0: it has none).
DecimalPlace(t) ==
  LET commas == Count(t, ",")
      dots == Count(t, ".")
  IN IF commas > 0 /\ dots > 0
     THEN IF RFind(t, ",") > RFind(t, ".") THEN RFind(t, ",") ELSE RFind(t, ".")
     ELSE IF commas = 1 THEN RFind(t, ",")
     ELSE IF dots = 1 THEN RFind(t, ".")
     ELSE IF dots > 1 /\ DigitsAfter(t, RFind(t, ".")) <= 2 THEN RFind(t, ".")
     ELSE 0

\* The number a numeric string denotes: all its digits, the ones after the
\* decimal separator being the fraction.
DenotedNumber(t) ==
  Dec(DigitsToInt(SelectSeq(t, LAMBDA c : c \in Digits)),
      IF DecimalPlace(t) = 0 THEN 0 ELSE DigitsAfter(t, DecimalPlace(t)))

\* C17: for a numeric string, after removing all whitespace, normalize_value
\* takes as decimal separator the single comma when there is no dot, the later
\* of the last comma and the last dot when both occur, none when there are
\* several commas and no dot, and the last dot of several dots exactly when at
\* most 2 digits follow it; every other separator is dropped.  "30 602,0"
\* gives 30602.0 and "1 234,56" gives 1234.56.
C17_DecimalSeparatorChosenByCounts ==
  nv_result # <<>> /\ cell.value.t = "str" =>
    /\ NumericString(RemoveWhitespace(cell.value.s)) =>
         nv_result[1] = Num(DenotedNumber(RemoveWhitespace(cell.value.s)))
    /\ cell.value.s = <<"3", "0", " ", "6", "0", "2", ",", "0">> =>
         nv_result[1] = Num(DecInt(30602))
    /\ cell.value.s = <<"1", " ", "2", "3", "4", ",", "5", "6">> =>
         nv_result[1] = Num(Dec(123456, 2))

\* "1.234.56": several dots, two digits after the last one.
C17_Witness ==
  /\ cell.value = Str(<<"1", ".", "2", "3", "4", ".", "5", "6">>)
  /\ nv_result = <<Num(Dec(123456, 2))>>

\* What is left of a string for float(): it is stripped, its whitespace is
\* removed, its separators are resolved and the characters outside
\* [0-9 . - +] are dropped.
NumericCharsOf(s) ==
  KeepNumericChars(SeparatorsResolved(RemoveWhitespace(Strip(s))))

\* t is a number as float() reads it: an optional sign, then digits with at
\* most one dot among them.
IsFloatLiteral(t) ==
  \E sign \in {<<>>, <<"+">>, <<"-">>} :
    \E body \in {SubSeq(t, Len(sign) + 1, Len(t))} :
      /\ t = sign \o body
      /\ \A i \in DOMAIN body : body[i] \in Digits \cup {"."}
      /\ Cardinality({i \in DOMAIN body : body[i] = "."}) <= 1
      /\ \E i \in DOMAIN body : body[i] \in Digits

\* Not a value: null, a blank string, "-", or text that is no number once the
\* characters outside [0-9 . - +] are dropped.
NotAValue(value) ==
  \/ value.t = "none"
  \/ /\ value.t = "str"
     /\ \/ Strip(value.s) = <<>>
        \/ Strip(value.s) = <<"-">>
        \/ ~IsFloatLiteral(NumericCharsOf(value.s))

Emitted == val_pc = "done" /\ dc_result[1] /\ dv_result[1].t = "num"

\* d is a whole number from 1900 to 2030.
WholeYear(d) == DecNorm(d).e = 0 /\ 1900 <= DecNorm(d).m /\ DecNorm(d).m <= 2030

-----------------------------------------------------------------------------
(* Properties of compare_simple_data (SpecCompare) *)

KeyOf(p) == normalize_coordinate_key(p.row, p.column)

\* The point at place i is the one the lookup map keeps for its key: no later
\* point of the list has the same key.
KeptInMap(points, i) ==
  \A j \in (i + 1)..Len(points) : KeyOf(points[j]) # KeyOf(points[i])

InList(list, P(_)) == \E i \in DOMAIN list : P(list[i])

\* C1: a recreated and a published point paired under the same coordinate key
\* are a correct match exactly when |recreated - published| <= tolerance (a
\* difference equal to the tolerance is a match), and otherwise a
\* value_difference whose difference is the signed recreated - published.
C1_ToleranceDecidesMatch ==
  cmp_pc = "done" =>
    \A i \in DOMAIN recreated_points, j \in DOMAIN published_points :
      LET a == recreated_points[i]
          b == published_points[j]
          key == KeyOf(a)
          delta == DecSub(a.value, b.value)
          within == DecLE(DecAbs(delta), numeric_tolerance)
          as_match(e) == /\ e.coordinates = key
                         /\ e.position = a.position
                         /\ e.recreated_value = a.value
                         /\ e.published_value = b.value
          as_difference(e) == as_match(e) /\ e.difference = delta
      IN (key = KeyOf(b) /\ KeptInMap(recreated_points, i)
            /\ KeptInMap(published_points, j))
         => /\ within <=> InList(results[1].correct_matches, as_match)
            /\ ~within <=> InList(results[1].value_differences, as_difference)
            /\ within => ~InList(results[1].value_differences, as_match)

\* A difference exactly equal to the tolerance 1.0 was classified as a match.
C1_Witness ==
  /\ cmp_pc = "done"
  /\ numeric_tolerance = DecInt(1)
  /\ \E i \in DOMAIN results[1].correct_matches :
       /\ results[1].correct_matches[i].difference = DecInt(1)
       /\ results[1].correct_matches[i].recreated_value = DecInt(101)
       /\ results[1].correct_matches[i].published_value = DecInt(100)

\* Some entry A -> B of the equivalence table has x = A and y = B.
TableEntry(x, y) ==
  \E i \in DOMAIN equivalence_map :
    equivalence_map[i][1] = x /\ equivalence_map[i][2] = y

\* C3: for every entry A -> B of the equivalence table, a point with header A
\* on one side and a point with header B on the other (same column) are
\* paired as the same cell, whichever side carries A.
C3_EquivalentHeadersPaired ==
  cmp_pc = "done" =>
    \A i \in DOMAIN recreated_points, j \in DOMAIN published_points :
      LET a == recreated_points[i]
          b == published_points[j]
      IN ((TableEntry(a.row, b.row) \/ TableEntry(b.row, a.row))
            /\ a.column = b.column)
         => KeyOf(a) = KeyOf(b)

\* x is the star glyph of some rating and y its digit.
StarAndDigit(x, y) == \E k \in 1..4 : x = Stars(k) /\ y = NatToStr(k)

\* C4: two points that differ only in a star glyph against its digit get the
\* same coordinate key and, with values within tolerance, are classified as a
\* match; apply_semantic_equivalence maps each star glyph to its digit.
C4_StarGlyphMatchesDigit ==
  cmp_pc = "done" =>
    /\ \A k \in 1..4 :
         /\ apply_semantic_equivalence(Stars(k)) = NatToStr(k)
         /\ normalize_coordinate_key(Stars(k), s_2020)
              = normalize_coordinate_key(NatToStr(k), s_2020)
    /\ \A i \in DOMAIN recreated_points, j \in DOMAIN published_points :
         LET a == recreated_points[i]
             b == published_points[j]
             key == KeyOf(a)
             within == DecLE(DecAbs(DecSub(a.value, b.value)), numeric_tolerance)
             as_match(e) == e.coordinates = key /\ e.position = a.position
         IN ((StarAndDigit(a.row, b.row) \/ StarAndDigit(b.row, a.row))
               /\ a.column = b.column)
            => /\ key = KeyOf(b)
               /\ (within /\ KeptInMap(recreated_points, i)
                     /\ KeptInMap(published_points, j))
                  => InList(results[1].correct_matches, as_match)

\* A recreated "****" point was matched with a published "4" point.
C4_Witness ==
  /\ cmp_pc = "done"
  /\ \E i \in DOMAIN recreated_points, j \in DOMAIN published_points :
       /\ recreated_points[i].row = Stars(4)
       /\ published_points[j].row = <<"4">>
       /\ \E m \in DOMAIN results[1].correct_matches :
            /\ results[1].correct_matches[m].position = recreated_points[i].position
            /\ results[1].correct_matches[m].coordinates = <<<<"4">>, s_2020>>

\* C10 as claimed: accuracy = correct_matches / |A|, 0 when A is empty.
C10_AccuracyIsRatio ==
  cmp_pc = "done" =>
    LET r == results[1] IN
    IF Len(recreated_points) = 0 THEN r.accuracy.num = 0
    ELSE r.accuracy.num * Len(recreated_points)
           = Len(r.correct_matches) * r.accuracy.den

\* C10 as amended: accuracy is the percentage 100 * correct_matches / |A|,
\* 0 when A is empty.
C10_AccuracyIsPercentage ==
  cmp_pc = "done" =>
    LET r == results[1] IN
    IF Len(recreated_points) = 0 THEN r.accuracy.num = 0
    ELSE r.accuracy.num * Len(recreated_points)
           = 100 * Len(r.correct_matches) * r.accuracy.den

\* One of two recreated points was matched: the accuracy is 50.
C10_Witness ==
  /\ cmp_pc = "done"
  /\ Len(recreated_points) = 2
  /\ Len(results[1].correct_matches) = 1
  /\ results[1].accuracy.num = 50 * results[1].accuracy.den

\* A level of one key is equal to, or by the equivalence table equivalent
\* to, the same level of the other.
LevelEquivalent(x, y) == x = y \/ TableEntry(x, y) \/ TableEntry(y, x)

KeyEquivalent(key1, key2) ==
  /\ Len(key1) = Len(key2)
  /\ \A i \in DOMAIN key1 : LevelEquivalent(key1[i], key2[i])

(* The number of characters in the matching blocks of                       *)
(* SequenceMatcher(None, a, b): the longest common block (the earliest in   *)
(* a, then in b, among the longest), then the same to its left and right.   *)
RECURSIVE MatchingChars(_, _)
MatchingChars(a, b) ==
  LET blocks == {blk \in (1..Len(a)) \X (1..Len(b)) \X (1..Len(a)) :
                   /\ blk[1] + blk[3] - 1 <= Len(a)
                   /\ blk[2] + blk[3] - 1 <= Len(b)
                   /\ SubSeq(a, blk[1], blk[1] + blk[3] - 1)
                        = SubSeq(b, blk[2], blk[2] + blk[3] - 1)}
      Earlier(x, y) == \/ x[3] > y[3]
                       \/ x[3] = y[3] /\ x[1] < y[1]
                       \/ x[3] = y[3] /\ x[1] = y[1] /\ x[2] <= y[2]
  IN IF blocks = {} THEN 0
     ELSE LET best == CHOOSE x \in blocks : \A y \in blocks : Earlier(x, y)
          IN best[3]
               + MatchingChars(SubSeq(a, 1, best[1] - 1), SubSeq(b, 1, best[2] - 1))
               + MatchingChars(SubSeq(a, best[1] + best[3], Len(a)),
                               SubSeq(b, best[2] + best[3], Len(b)))

\* The fuzzy score of one level as the fraction num / den: 1 when equal or
\* equivalent, the similarity ratio 2M / T of the lower-cased labels when
\* that is at least 0.8, and 0 otherwise.
LevelScore(x, y) ==
  LET m == 2 * MatchingChars(Lower(x), Lower(y))
      t == Len(x) + Len(y)
  IN IF LevelEquivalent(x, y) THEN [num |-> 1, den |-> 1]
     ELSE IF t > 0 /\ 10 * m >= 8 * t THEN [num |-> m, den |-> t]
     ELSE [num |-> 0, den |-> 1]

\* The average of the two level scores is at least 0.7.
FuzzyMatch(key1, key2) ==
  LET s1 == LevelScore(key1[1], key2[1])
      s2 == LevelScore(key1[2], key2[2])
  IN 10 * (s1.num * s2.den + s2.num * s1.den) >= 14 * s1.den * s2.den

\* C2: a recreated point is reported missing_in_published only when no
\* published key is exactly equal to its key, none is equal-or-equivalent at
\* every level, and none reaches a fuzzy score of 0.7; a recreated point for
\* which a stage finds a published key is compared numerically instead.
C2_MissingOnlyWhenAllStagesFail ==
  cmp_pc = "done" =>
    \A i \in DOMAIN recreated_points :
      LET a == recreated_points[i]
          reported_missing(e) == e.coordinates = KeyOf(a) /\ e.position = a.position
          compared(e) == e.coordinates = KeyOf(a) /\ e.position = a.position
          found == \E j \in DOMAIN published_points :
                     \/ KeyOf(published_points[j]) = KeyOf(a)
                     \/ KeyEquivalent(KeyOf(a), KeyOf(published_points[j]))
                     \/ FuzzyMatch(KeyOf(a), KeyOf(published_points[j]))
      IN KeptInMap(recreated_points, i) =>
           /\ InList(results[1].missing_in_published, reported_missing) => ~found
           /\ found => \/ InList(results[1].correct_matches, compared)
                       \/ InList(results[1].value_differences, compared)

\* The coordinate keys of the entries of a result list.
CoordinatesOf(list) == {list[i].coordinates : i \in DOMAIN list}

\* The keys of the published points that a recreated point was paired with.
ClaimedKeys ==
  CoordinatesOf(results[1].correct_matches)
    \cup CoordinatesOf(results[1].value_differences)

\* C11: missing_in_recreated holds exactly the published coordinate keys that
\* no recreated point was paired with, each once and with the value of the
\* published point the map keeps for the key.
C11_MissingInRecreatedIsUnclaimed ==
  cmp_pc = "done" =>
    LET missing == results[1].missing_in_recreated
        published_keys == {KeyOf(published_points[j]) : j \in DOMAIN published_points}
    IN /\ CoordinatesOf(missing) = published_keys \ ClaimedKeys
       /\ \A m, n \in DOMAIN missing :
            missing[m].coordinates = missing[n].coordinates => m = n
       /\ \A m \in DOMAIN missing :
            \E j \in DOMAIN published_points :
              /\ KeptInMap(published_points, j)
              /\ KeyOf(published_points[j]) = missing[m].coordinates
              /\ published_points[j].value = missing[m].published_value

\* A published point went unclaimed although recreated points were compared:
\* it is in missing_in_recreated and the recreated ones in missing_in_published.
C11_Witness ==
  /\ cmp_pc = "done"
  /\ Len(results[1].missing_in_recreated) = 1
  /\ Len(results[1].missing_in_published) = 2

\* The entries the comparison makes for recreated points: the three lists
\* a recreated point can go to.
RecreatedEntries(r) ==
  r.correct_matches \o r.value_differences \o r.missing_in_published

EntriesAt(entries, key) == SelectSeq(entries, LAMBDA e : e.coordinates = key)

\* C27: when two points of one list have the same coordinate key, the lookup
\* map keeps the later one: the coordinate has one entry in the result lists,
\* with the value and the position of the later point, and the earlier point
\* has no entry of its own.  The same holds on the published side for the
\* value the comparison uses.
C27_LaterCellOverwritesEarlier ==
  cmp_pc = "done" =>
    /\ \A i \in DOMAIN recreated_points :
         LET entries == EntriesAt(RecreatedEntries(results[1]),
                                  KeyOf(recreated_points[i]))
         IN /\ Len(entries) = 1
            /\ KeptInMap(recreated_points, i) =>
                 /\ entries[1].recreated_value = recreated_points[i].value
                 /\ entries[1].position = recreated_points[i].position
    /\ \A j \in DOMAIN published_points :
         KeptInMap(published_points, j) =>
           LET paired == EntriesAt(results[1].correct_matches
                                     \o results[1].value_differences
                                     \o results[1].missing_in_recreated,
                                   KeyOf(published_points[j]))
           IN /\ Len(paired) = 1
              /\ paired[1].published_value = published_points[j].value

\* Two recreated points of one coordinate with the values 100 and 101: the
\* only entry is the one of the second point, in row 3.
C27_Witness ==
  /\ cmp_pc = "done"
  /\ Len(recreated_points) = 2
  /\ KeyOf(recreated_points[1]) = KeyOf(recreated_points[2])
  /\ recreated_points[1].value = DecInt(100)
  /\ recreated_points[2].value = DecInt(101)
  /\ Len(RecreatedEntries(results[1])) = 1
  /\ RecreatedEntries(results[1])[1].recreated_value = DecInt(101)
  /\ RecreatedEntries(results[1])[1].position = <<3, 2>>

\* C28: every recreated data point is in exactly one of correct_matches,
\* value_differences and missing_in_published, so the three lists together
\* have recreated_data_points entries.
C28_RecreatedPointsPartitioned ==
  cmp_pc = "done" =>
    Len(RecreatedEntries(results[1])) = results[1].recreated_data_points

-----------------------------------------------------------------------------
(* Properties of compare_files (SpecFiles) *)

\* The workbook opens and has a sheet of that name.
SheetPresent(file, sheet_name) ==
  file.readable /\ sheet_name \in DOMAIN file.sheets

\* C12: when a requested sheet is absent from one of the two workbooks, or a
\* workbook cannot be opened, the sheet's result carries an input error and
\* not a comparison outcome.
C12_AbsentSheetFailsFast ==
  cf_pc = "done" =>
    \A i \in DOMAIN sheet_names :
      (~SheetPresent(published_file, sheet_names[i])
         \/ ~SheetPresent(recreated_file, sheet_names[i]))
      => "error" \in DOMAIN MapGet(sheet_results, sheet_names[i])

\* The result of the sheet when it is the only one requested and nothing
\* raises.
ResultAlone(sheet_name) ==
  compare_simple_data(ExtractFrom(published_file, sheet_name),
                      ExtractFrom(recreated_file, sheet_name),
                      numeric_tolerance)

\* C13: every requested sheet name gets a result entry, and the entry of a
\* sheet is its own error entry or the result it has when requested alone,
\* whatever happened to the sheets around it.
C13_SheetsAreIndependent ==
  /\ \A i \in 1..(sheet_index - 1) :
       /\ i \in DOMAIN sheet_names
       /\ MapHas(sheet_results, sheet_names[i])
       /\ \/ MapGet(sheet_results, sheet_names[i]) = ErrorResult
          \/ MapGet(sheet_results, sheet_names[i]) = ResultAlone(sheet_names[i])
  /\ cf_pc = "done" =>
       \A i \in DOMAIN sheet_names : MapHas(sheet_results, sheet_names[i])

\* The first sheet failed and the second was compared, with a match.
C13_Witness ==
  /\ cf_pc = "done"
  /\ Len(sheet_names) = 2
  /\ sheet_names[1] # sheet_names[2]
  /\ MapGet(sheet_results, sheet_names[1]) = ErrorResult
  /\ Len(MapGet(sheet_results, sheet_names[2]).correct_matches) = 1

\* No stage of the table-region detector has a candidate in the sheet: no
\* cell the normalizer accepts and no numeric cell other than zero.
NoDataCell(ws) ==
  \A p \in DOMAIN ws.cells :
    /\ normalize_value(ws.cells[p].value).t # "num"
    /\ ws.cells[p].value.t # "num"

\* The keys of a comparison outcome.
ComparisonFields == DOMAIN compare_simple_data(<<>>, <<>>, DecInt(1))

\* C14: the result of a sheet in which no stage of the detector finds a data
\* cell carries an explicit marker: a field a comparison outcome does not
\* have.
C14_NoDataIsMarked ==
  cf_pc = "done" =>
    \A i \in DOMAIN sheet_names :
      LET sheet_name == sheet_names[i] IN
      (/\ SheetPresent(published_file, sheet_name)
       /\ SheetPresent(recreated_file, sheet_name)
       /\ \/ NoDataCell(published_file.sheets[sheet_name])
          \/ NoDataCell(recreated_file.sheets[sheet_name]))
      => ~(DOMAIN MapGet(sheet_results, sheet_name) \subseteq ComparisonFields)

\* One lookup of each header in the equivalence table.
LookedUpOnce(point) ==
  <<apply_semantic_equivalence(point.original_row),
    apply_semantic_equivalence(point.original_column)>>

\* C19: the key under which a data point is stored in the comparison map is
\* the result of one table lookup on each header text found in the sheet.
C19_EquivalenceAppliedOnce ==
  cf_pc = "compare_simple_data" =>
    /\ \A i \in DOMAIN CoordinateMap(published_points) :
         CoordinateMap(published_points)[i].key
           = LookedUpOnce(CoordinateMap(published_points)[i].point)
    /\ \A i \in DOMAIN CoordinateMap(recreated_points) :
         CoordinateMap(recreated_points)[i].key
           = LookedUpOnce(CoordinateMap(recreated_points)[i].point)

-----------------------------------------------------------------------------
(* Properties of detection and extraction (SpecExtract) *)

InBounds(bounds, row, col) ==
  /\ bounds.min_row <= row /\ row <= bounds.max_row
  /\ bounds.min_col <= col /\ col <= bounds.max_col

\* Stage 3 of the ladder: the numeric cells other than zero, whatever the
\* header filter says of them.
NonzeroNumericPositions(ws) ==
  {p \in DOMAIN ws.cells :
     ws.cells[p].value.t = "num" /\ ws.cells[p].value.n # DecInt(0)}

\* The candidate set of the first stage of the ladder that is not empty.  No
\* cell of the sheets is shaded, so stages 1 and 2 have the same cells, and
\* stage 4 has cells of stage 1 only.
LadderCandidates(ws) ==
  IF DataCellPositions(ws) # {} THEN DataCellPositions(ws)
  ELSE NonzeroNumericPositions(ws)

\* C15: the returned bounds are computed from the candidate set of the first
\* non-empty stage of the ladder: accepted cells, then any nonzero numeric
\* cell.
C15_FirstNonEmptyStageWins ==
  (table_bounds # <<>> /\ LadderCandidates(sheet) # {})
    => table_bounds[1] = ExpandedBox(LadderCandidates(sheet))

\* C16 as claimed: the bounds are the box of the candidate cells with each of
\* the four sides moved out by the margin and clipped to the sheet.
C16_PaddedOnFourSides ==
  (table_bounds # <<>> /\ DataCellPositions(sheet) # {}) =>
    LET found == DataCellPositions(sheet)
        b == table_bounds[1]
    IN /\ \E p \in found : b.min_row = Max2(1, p[1] - Margin)
       /\ \E p \in found : b.max_row = Min2(sheet.max_row, p[1] + Margin)
       /\ \E p \in found : b.min_col = Max2(1, p[2] - Margin)
       /\ \E p \in found : b.max_col = Min2(sheet.max_column, p[2] + Margin)
       /\ \A p \in found : InBounds(b, p[1], p[2])

\* C16 as amended: the top and the left side are moved out by the margin and
\* clipped at 1, the bottom and the right side are the last candidate row and
\* column; the bounds lie in the sheet and hold every candidate cell.
C16_PaddedOnTopAndLeft ==
  (ext_pc = "extract_simple_data_points" /\ DataCellPositions(sheet) # {}) =>
    LET found == DataCellPositions(sheet)
        b == table_bounds[1]
    IN /\ \E p \in found :
            /\ b.min_row = Max2(1, p[1] - Margin)
            /\ \A q \in found : p[1] <= q[1]
       /\ \E p \in found : b.max_row = p[1]
       /\ \E p \in found :
            /\ b.min_col = Max2(1, p[2] - Margin)
            /\ \A q \in found : p[2] <= q[2]
       /\ \E p \in found : b.max_col = p[2]
       /\ \A p \in found : InBounds(b, p[1], p[2])
       /\ 1 <= b.min_row /\ b.min_row <= b.max_row /\ b.max_row <= sheet.max_row
       /\ 1 <= b.min_col /\ b.min_col <= b.max_col
       /\ b.max_col <= sheet.max_column

\* The data starts in row 10: the top side is 5 rows above it, unclipped, and
\* the bottom side is above the last row of the sheet.
C16_Witness ==
  /\ table_bounds # <<>>
  /\ DataCellPositions(sheet) # {}
  /\ table_bounds[1].min_row = 5
  /\ table_bounds[1].max_row < sheet.max_row

\* The number of data points extracted from the cell at a position.
PointsAt(position) ==
  Len(SelectSeq(data_points, LAMBDA p : p.position = position))

\* C7: every cell inside the detected table bounds for which normalize_value
\* returns a value yields exactly one data point, and every other cell none.
C7_AcceptedCellsYieldOnePoint ==
  ext_pc = "done" =>
    \A p \in DOMAIN sheet.cells :
      LET accepted == normalize_value(sheet.cells[p].value).t = "num"
          inside == InBounds(table_bounds[1], p[1], p[2])
      IN /\ (inside /\ accepted) => PointsAt(p) = 1
         /\ ~(inside /\ accepted) => PointsAt(p) = 0

\* The claimed upward scan: rows data_row - 1 down to min_row, merged cells
\* read through their top-left cell, the first acceptable header or Col_<c>.
UpwardScanHeader(ws, data_row, data_col, min_row) ==
  HeaderOr(
    FirstFound([i \in 1..(data_row - min_row) |->
      ColumnHeaderIn(Cell(get_merged_cell_value(ws, data_row - i, data_col),
                          General))]),
    s_Col_ \o NatToStr(data_col))

\* C8: the column header of a data cell (r, c) is the first acceptable header
\* scanning column c upward from row r - 1 to min_row inclusive, merged cells
\* resolved, and Col_<c> when the scan finds none.
C8_ColumnHeaderIsNearestAbove ==
  ext_pc = "done" =>
    \A i \in DOMAIN data_points :
      data_points[i].original_column
        = UpwardScanHeader(sheet, data_points[i].position[1],
                           data_points[i].position[2], table_bounds[1].min_row)

\* The claimed leftward scan: columns data_col - 1 down to 1 of the row, the
\* first acceptable header or Row_<r>.
LeftwardScanHeader(ws, data_row, data_col) ==
  HeaderOr(FirstRowHeader(ws, [i \in 1..(data_col - 1) |-> <<data_row, data_col - i>>]),
           s_Row_ \o NatToStr(data_row))

\* C9: the row header of a data cell (r, c) comes from row r: the first
\* acceptable header scanning leftward from column c - 1 to column 1, and
\* Row_<r> when the row has none to the left of the cell.
C9_RowHeaderIsNearestLeft ==
  ext_pc = "done" =>
    \A i \in DOMAIN data_points :
      data_points[i].original_row
        = LeftwardScanHeader(sheet, data_points[i].position[1],
                             data_points[i].position[2])

-----------------------------------------------------------------------------
(* Properties of the label normalizer (SpecLabel) *)

\* "total", "(em branco)", "geral" and the empty string
TotalFamily ==
  {<<"t", "o", "t", "a", "l">>,
   <<"(", "e", "m", " ", "b", "r", "a", "n", "c", "o", ")">>,
   <<"g", "e", "r", "a", "l">>, <<>>}

\* The spellings of the range from x to y, with the words that follow it.
RangeSpellings(x, y, suffix) ==
  {Str(DeXaY(de, x, y) \o suffix) : de \in DeSpellings}
    \cup {Str(XDashY(x, y) \o suffix)}

\* C20: normalize_dimension_label gives "Total" for null and for "total",
\* "(em branco)", "geral" and the empty string in any casing; it rewrites
\* "de X a Y" to "X - Y", "N anos ou mais" to "N+" and "menos de N anos" to
\* "< N" for all numbers X, Y, N; so two spellings of the same range
\* ("De 16 a 24 anos", "16 - 24 anos") have the same normalized label and are
\* found equivalent.
C20_LabelsHaveOneNormalForm ==
  /\ norm_value1 # <<>> =>
       /\ value1.t = "none" => norm_value1[1] = s_Total
       /\ value1.t = "str" /\ Lower(value1.s) \in TotalFamily =>
            norm_value1[1] = s_Total
       /\ \A x \in LabelNumbers, y \in LabelNumbers, suffix \in {<<>>, s_anos} :
            value1 \in RangeSpellings(x, y, suffix) =>
              norm_value1[1] = XDashY(x, y) \o suffix
       /\ \A n \in LabelNumbers :
            /\ \A anos \in AnosSpellings :
                 value1 = Str(NOuMais(n, anos)) => norm_value1[1] = NPlus(n)
            /\ \A menos \in MenosSpellings :
                 value1 = Str(MenosDeN(menos, n)) => norm_value1[1] = LessThanN(n)
  /\ vse_pc = "done" =>
       \A x \in LabelNumbers, y \in LabelNumbers, suffix \in {<<>>, s_anos} :
         value1 \in RangeSpellings(x, y, suffix)
           /\ value2 \in RangeSpellings(x, y, suffix) =>
             norm_value1 = norm_value2 /\ vse_result = <<TRUE>>

\* "De 16 a 24 anos" against "16 - 24 anos"
C20_Witness ==
  /\ value1 = Str(DeXaY(<<"D", "e">>, 16, 24) \o s_anos)
  /\ value2 = Str(XDashY(16, 24) \o s_anos)
  /\ vse_pc = "done"
  /\ norm_value1 = <<XDashY(16, 24) \o s_anos>>
  /\ norm_value2 = norm_value1
  /\ vse_result = <<TRUE>>

\* The label has one of the phrasings the normalizer rewrites: "(em branco)",
\* a range "de X a Y", "N anos ou mais", "menos de N anos", a lone "-", or
\* the abbreviation "n.d." ("n.d", "n. d.").
HasPhrasing(s) ==
  \/ \E p \in DOMAIN s, pattern \in 1..5 : PatternMatch(pattern, s, p).end > 0
  \/ \E p \in DOMAIN s :
       Lit(s, Star(s, Lit(s, p, <<"n", ".">>), Whitespace), <<"d">>) > 0

\* C29: a label that is no total/blank token, no key of the equivalence
\* table and has none of the rewritten phrasings is returned unchanged apart
\* from trimming and collapsing whitespace; names of countries and regions
\* are never altered.
C29_OrdinaryLabelsUnchanged ==
  norm_value1 # <<>> /\ value1.t = "str" =>
    /\ /\ Lower(Strip(value1.s)) \notin special_cases
       /\ \A i \in DOMAIN semantic_equivalents :
            semantic_equivalents[i][1] # Strip(value1.s)
       /\ ~HasPhrasing(value1.s)
       => norm_value1[1] = Strip(CollapseWhitespace(value1.s))
    /\ value1.s \in OrdinaryLabels => norm_value1[1] = value1.s

-----------------------------------------------------------------------------
(* Properties of has_background_color (SpecFill) *)

\* The colour is one of the no-fill sentinels: automatic, white, theme white.
NoFillColor(color) ==
  \/ color.type = "auto"
  \/ color.type = "indexed" /\ color.indexed \in {64, 65}
  \/ color.type = "rgb" /\ color.rgb \in {"FFFFFFFF", "FFFFFF"}
  \/ color.type = "theme" /\ color.theme = 0

\* C21: has_background_color is true exactly when the cell has a fill pattern
\* and the fill is none of the no-fill sentinels (none, automatic, white,
\* theme white); a cell with a pattern and the colour white is not shaded.
C21_ShadedIffPatternAndColour ==
  hbc_pc = "done" =>
    hbc_result[1] = (fill.patternType # "None" /\ ~NoFillColor(fill.fgColor))

-----------------------------------------------------------------------------
(* Properties of the consolidated names (SpecName) *)

\* C25: for every non-empty list of dimension columns the generated name is
\* accepted by validate_consolidated_name: it starts with "dim_", has only
\* lowercase letters, digits and underscores, 5 to 50 characters, no
\* underscore at its end and no double underscore.
C25_GeneratedNameIsValid ==
  name_pc = "done" =>
    LET name == consolidated_name[1] IN
    /\ name_valid[1]
    /\ Len(name) >= 5 /\ Len(name) <= 50
    /\ SubSeq(name, 1, 4) = <<"d", "i", "m", "_">>
    /\ \A i \in DOMAIN name : IsNameChar(name[i])
    /\ name[Len(name)] # "_"
    /\ \A i \in 1..(Len(name) - 1) : ~(name[i] = "_" /\ name[i + 1] = "_")

-----------------------------------------------------------------------------
(* Properties of validate_dataframe_integrity (SpecIntegrity) *)

\* The converted frame has the columns and rows of the original and another
\* value in at least one cell.
CellChanged ==
  /\ ColumnList(original_df) = ColumnList(converted_df)
  /\ Shape(original_df) = Shape(converted_df)
  /\ \E i \in DOMAIN original_df : \E r \in DOMAIN original_df[i].values :
       original_df[i].values[r] # converted_df[i].values[r]

\* C26: validate_dataframe_integrity reports valid for two identical frames
\* and invalid whenever the converted frame differs from the original in at
\* least one cell value, whatever the type of the column of that cell.
C26_IntegrityDetectsChangedCell ==
  integ_pc = "done" /\ ~is_json =>
    /\ original_df = converted_df => integrity[1].is_valid
    /\ CellChanged => ~integrity[1].is_valid

-----------------------------------------------------------------------------
(* Properties of DimensionConsolidator.consolidate (SpecConsolidate) *)

NonDimensionColumns(df) == SelectSeq(df.columns, LAMBDA c : ~IsDimension(c))

\* C23: the frame consolidate returns, in dry-run and in real mode, has the
\* rows of the input, and 'valor' and every other column that is not a
\* dimension are identical to the input's, row for row; only dim_* columns
\* are added or removed.
C23_RowsAndOtherColumnsKept ==
  cons_pc = "done" =>
    /\ Len(consolidated_df.data) = Len(loaded_df.data)
    /\ NonDimensionColumns(consolidated_df) = NonDimensionColumns(loaded_df)
    /\ \A i \in DOMAIN loaded_df.columns :
         ~IsDimension(loaded_df.columns[i]) =>
           SameColumn(loaded_df, consolidated_df, loaded_df.columns[i])

\* C24: in dry-run and in real mode every value a dim_* column of the loaded
\* frame held is still in some dim_* column of the frame consolidate returns.
C24_NoDimensionValueLost ==
  cons_pc = "done" =>
    \A i \in DOMAIN loaded_df.columns :
      IsDimension(loaded_df.columns[i]) =>
        ColumnValues(loaded_df, loaded_df.columns[i])
          \subseteq CollectValues(consolidated_df, DimensionColumns(consolidated_df))

\* The values the source columns of the consolidated group held in a row of
\* the loaded frame.
CarriedBy(r) ==
  IF r \in DOMAIN loaded_df.data
  THEN {ValueAt(loaded_df, r, candidates[1][i]) : i \in DOMAIN candidates[1]} \ {Empty}
  ELSE {}

\* The columns the consolidation produced.
ProducedColumns ==
  {consolidated_df.columns[i] : i \in DOMAIN consolidated_df.columns}
    \ {loaded_df.columns[i] : i \in DOMAIN loaded_df.columns}

\* C30: in a consolidated column the value of a row is one of the values the
\* row held in the source columns, and a row whose source columns were all
\* empty stays empty.
C30_RowKeepsOneOfItsValues ==
  cons_pc = "done" /\ candidates # <<>> =>
    \A c \in ProducedColumns : \A r \in DOMAIN consolidated_df.data :
      IF CarriedBy(r) = {} THEN ValueAt(consolidated_df, r, c) = Empty
      ELSE ValueAt(consolidated_df, r, c) \in CarriedBy(r)

====
